---- MODULE Spec2Model ----
(***************************************************************************)
(* Ingestion pipeline of the document service (process_document and its   *)
(* process_batch tasks), the vector index adapter (create_collection,      *)
(* _ensure_indexes, upsert_chunks, search, get_initial_chunks,             *)
(* delete_vectors), the multi-query retrieval of the MCQ and evaluation    *)
(* services with generate_mcq as its caller, the streamed chat             *)
(* (get_answer_stream, stream_and_save) and the blocking chat              *)
(* (chat_message, get_answer and the retriever of the retrieval chain).    *)
(*                                                                         *)
(* Texts.  A text is a sequence of fragments.  The fixed status messages   *)
(* are one fragment each; the texts of exceptions are spelled character    *)
(* by character because process_batch looks inside them ("429" in str(e)). *)
(* Times are in tenths of a second, so 2 ** attempt + 0.1 * (idx % 5) is   *)
(* 10 * 2 ^ attempt + idx % 5.                                             *)
(***************************************************************************)
EXTENDS Integers, Sequences, FiniteSets, TLC

(***************************************************************************)
(* Bounds of the model.                                                    *)
(***************************************************************************)
MaxChunks == 26        \* longest document of the narrow specification
WideChunks == 251      \* the document of the wide specification
MaxFaults == 6         \* embed/upsert failures injected in one narrow run
WideFaults == 3        \* embed/upsert failures injected in one wide run
WideFaulty == 0        \* batch_idx the failures of a wide run hit
MaxCalls == 2          \* adapter calls made by the adapter harness
HarnessChunks == 2     \* chunks of the document the harness collection may hold
MaxBudget == 3         \* largest num_chunks of a retrieval
MaxExpanded == 3       \* most queries of a retrieval, the original included
MaxTexts == 3          \* distinct hit texts the searches of a retrieval return
MaxUpstream == 2       \* chunks one generation stream yields before it ends
MaxDocs == 2           \* retrieved documents one context chunk carries
OtherTurns == 2        \* turns of a second chat request: its question, its answer
MaxDbFaults == 2       \* status updates the database refuses in one run
OutageFaults == 3      \* embed/upsert failures injected in a run with an outage

(***************************************************************************)
(* Program constants.                                                      *)
(***************************************************************************)
batch_size == 25
SemaphoreSlots == 10
retries == 3
TextPeriod == 7        \* chunk texts repeat with this period in the inputs

Min(a, b) == IF a < b THEN a ELSE b

None == <<"<None>">>
NoError == <<"<no exception>">>

MsgExtracting == <<"Extracting text...">>
MsgChunking == <<"Chunking text...">>
MsgExtractFailed == <<"Failed to extract text">>
MsgNoChunks == <<"No chunks generated">>
MsgTopicsFailed == <<"Topic extraction failed">>
MsgGenerating(n) == <<"Generating embeddings (" \o ToString(n) \o " chunks)...">>

Pat429 == <<"4", "2", "9">>
PatTooMany == <<"T", "o", "o", " ", "M", "a", "n", "y", " ",
                "R", "e", "q", "u", "e", "s", "t", "s">>

ErrHttp429 == <<"H", "T", "T", "P", " ", "4", "2", "9">>
ErrTooMany == PatTooMany
ErrTimeout == <<"t", "i", "m", "e", "d", " ", "o", "u", "t">>
\* str(e) of an exception raised without arguments (asyncio.TimeoutError())
ErrSilent == <<>>
ErrRefused == <<"r", "e", "f", "u", "s", "e", "d">>
ErrAlreadyExists == <<"A", "l", "r", "e", "a", "d", "y", " ", "e", "x", "i", "s", "t", "s">>

\* texts the adapter looks for in the store's errors (lines 167, 194, 219, 234)
PatIndexRequired == <<"I", "n", "d", "e", "x", " ", "r", "e", "q", "u", "i", "r",
                    "e", "d">>
PatNotFound == <<"N", "o", "t", " ", "f", "o", "u", "n", "d", ":", " ", "C",
               "o", "l", "l", "e", "c", "t", "i", "o", "n">>
PatDoesntExist == <<"d", "o", "e", "s", "n", "'", "t", " ", "e", "x", "i", "s",
                  "t">>

\* the store's answers to a query it refuses
ErrIndexRequired == <<"B", "a", "d", " ", "r", "e", "q", "u", "e", "s", "t", ":",
                    " ", "I", "n", "d", "e", "x", " ", "r", "e", "q", "u", "i",
                    "r", "e", "d", " ", "b", "u", "t", " ", "n", "o", "t", " ",
                    "f", "o", "u", "n", "d">>
ErrNotFound == <<"N", "o", "t", " ", "f", "o", "u", "n", "d", ":", " ", "C",
               "o", "l", "l", "e", "c", "t", "i", "o", "n", " ", "`", "p",
               "r", "o", "j", "e", "c", "t", "_", "1", "`", " ", "d", "o",
               "e", "s", "n", "'", "t", " ", "e", "x", "i", "s", "t", "!">>

\* the exception texts of one run: one rate-limit wording and one other error
FaultTextSets == {{ErrHttp429, ErrTimeout}, {ErrTooMany, ErrTimeout}}

\* pat in text (Python substring test)
Contains(text, pat) ==
    \E i \in 0..(Len(text) - Len(pat)) :
        \A j \in 1..Len(pat) : text[i + j] = pat[j]

IsRateLimit(e) == Contains(e, Pat429) \/ Contains(e, PatTooMany)

\* Python truthiness of an Optional[str]
Truthy(msg) == msg # None /\ Len(msg) > 0

(***************************************************************************)
(* Inputs: the chunk sequence returned by the chunker.  Chunk texts are    *)
(* numbered; equal numbers are equal texts.                                *)
(***************************************************************************)
MakeChunks(n) == [i \in 1..n |-> (i - 1) % TextPeriod]

ChunkCounts(maxc) == {n \in {0, 1, batch_size, batch_size + 1, maxc} : n <= maxc}

(***************************************************************************)
(* State.                                                                  *)
(***************************************************************************)
VARIABLES
    pc,                 \* position of process_document
    status,             \* documents.upload_status
    message,            \* documents.error_message
    failed_by,          \* the statement of process_document that wrote failed
    exc_origin,         \* the call whose exception reached the outer handler
    text,               \* result of extract_text
    chunks,             \* result of chunk_text
    collection_exists,  \* the project's collection is in the store
    payload_indexes,    \* payload indexes of the collection
    ensure_log,         \* one record per create_collection call
    semaphore,          \* value of asyncio.Semaphore(10)
    waiters,            \* tasks blocked in semaphore.acquire, FIFO
    task,               \* per batch_idx: state and attempt of process_batch
    attempts,           \* per batch_idx: one record per finished attempt
    task_error,         \* per batch_idx: the exception raised by process_batch
    gather_exc,         \* the exception asyncio.gather propagates
    gather_from,        \* batch_idx of the task that raised it
    upserted,           \* the upsert_chunks calls that reached the collection
    embed_calls,        \* calls of generate_embeddings in this run
    faults_left,        \* failures the environment may still inject
    strict_index,       \* the store answers "already exists" for an existing index
    fault_targets,      \* batch_idx values whose embed/upsert calls may fail
    fault_texts,        \* texts of the exceptions those calls raise
    harness,            \* TRUE in the adapter harness
    db_faults_left,     \* status updates the database may still refuse
    lost_replies,       \* the store may apply an upsert whose reply times out
    topics_outcome,     \* how generate_document_topics ended
    index_required,     \* the store refuses a filter on a field without index
    query_log,          \* one record per search / get_initial_chunks call
    delete_log,         \* one record per delete_document call
    db_row,             \* the document's record is in the documents table
    r_pc,               \* position of the retrieval (_get_context_content)
    min_per_query,      \* 3 in mcq_service, 2 in evaluation_service
    queries,            \* the expanded query list
    num_chunks,         \* the budget of the retrieval
    q_idx,              \* index of the query the loop searches next
    all_hits,           \* texts of the hits kept so far, in order
    seen_texts,         \* set of the texts kept so far
    hits_total,         \* hits returned by the searches so far
    content,            \* the context the retrieval returned
    search_log,         \* the hit texts each search of the loop returned
    expansion,          \* how the query expansion ended
    r_exc,              \* the call whose exception the retrieval caught
    generation,         \* generate_mcq: the chat_completion call for the questions
    mcq_outcome,        \* generate_mcq: how it ended
    s_pc,               \* position of chat_stream and its two generators
    upstream,           \* the chunks chain.astream has yielded, in order
    gen_error,          \* the exception the generation raised
    sources_data,       \* get_answer_stream: the sources captured so far
    chunk,              \* stream_and_save: the chunk being forwarded
    full_answer,        \* stream_and_save: the answer text so far
    sources,            \* stream_and_save: the parsed sources
    received,           \* the chunks the client has received, in order
    chat_messages,      \* the rows of the chat_messages table
    insert_attempts,    \* inserts of an assistant row attempted by stream_and_save
    c_pc,               \* position of chat_message
    selected_documents, \* chat_message: the document ids of the request
    response_context,   \* get_answer: response["context"], the retrieved documents
    result,             \* chat_message: the response to the caller
    chat_history,       \* chat_message: the chat_history handed to get_answer
    other_left          \* turns a second request of the project may still insert

docVars == <<pc, status, message, failed_by, exc_origin, text, chunks>>
storeVars == <<collection_exists, payload_indexes, ensure_log>>
taskVars == <<semaphore, waiters, task, attempts, task_error, gather_exc,
              gather_from, upserted, embed_calls, faults_left>>
faultVars == <<strict_index, fault_targets, fault_texts, harness, lost_replies>>
envVars == <<faultVars, db_faults_left, topics_outcome>>

adapterVars == <<index_required, query_log, delete_log, db_row>>
retrievalVars == <<r_pc, min_per_query, queries, num_chunks, q_idx, all_hits,
                   seen_texts, hits_total, content, search_log, expansion, r_exc,
                   generation, mcq_outcome>>
streamVars == <<s_pc, upstream, gen_error, sources_data, chunk, full_answer, sources,
                received, chat_messages, insert_attempts>>
chatVars == <<c_pc, selected_documents, response_context, result, chat_history,
              other_left>>
serviceVars == <<retrievalVars, streamVars, chatVars>>
otherVars == <<adapterVars, serviceVars>>

vars == <<docVars, storeVars, taskVars, envVars, otherVars>>

EmptyFn == [b \in {} |-> 0]

DocumentId == "doc-1"

\* a second document of the same project
OtherDocumentId == "doc-2"

(***************************************************************************)
(* Vector index adapter (QdrantService).  The store holds at most one      *)
(* collection per name; a fault names the client call of one adapter call  *)
(* that fails with a transport error.                                      *)
(***************************************************************************)
StoreFaults == {"none", "get_collections", "create_collection",
                "index_document_id", "index_chunk_id"}

AllIndexes == {"document_id", "chunk_id"}

\* client.create_collection: the store refuses a name it already holds
client_create_collection(exists, fails) ==
    IF fails THEN [exists |-> exists, raised |-> TRUE, err |-> ErrRefused]
    ELSE IF exists THEN [exists |-> TRUE, raised |-> TRUE, err |-> ErrAlreadyExists]
    ELSE [exists |-> TRUE, raised |-> FALSE, err |-> NoError]

\* client.create_payload_index
create_payload_index(idx, field, strict, fails) ==
    IF fails THEN [indexes |-> idx, raised |-> TRUE, err |-> ErrRefused]
    ELSE IF field \in idx /\ strict
         THEN [indexes |-> idx, raised |-> TRUE, err |-> ErrAlreadyExists]
         ELSE [indexes |-> idx \cup {field}, raised |-> FALSE, err |-> NoError]

\* _ensure_indexes: both calls sit in one try block, every exception is swallowed
ensure_indexes(idx, strict, fault) ==
    LET first == create_payload_index(idx, "document_id", strict,
                                      fault = "index_document_id")
        second == create_payload_index(first.indexes, "chunk_id", strict,
                                       fault = "index_chunk_id")
    IN  IF first.raised THEN first.indexes ELSE second.indexes

create_collection_nocheck(exists, idx, strict, fault) ==
    IF fault = "get_collections"
    THEN [exists |-> exists, indexes |-> idx, raised |-> TRUE, err |-> ErrRefused,
          requested |-> FALSE]
    ELSE LET made == client_create_collection(exists, fault = "create_collection")
         IN  IF made.raised
             THEN [exists |-> exists, indexes |-> idx, raised |-> TRUE,
                   err |-> made.err, requested |-> TRUE]
             ELSE [exists |-> TRUE, indexes |-> ensure_indexes(idx, strict, fault),
                   raised |-> FALSE, err |-> NoError, requested |-> TRUE]

create_collection_swallowing(exists, idx, strict, fault) ==
    [exists |-> exists, indexes |-> idx, raised |-> FALSE, err |-> NoError,
     requested |-> ~exists]

\* create_collection: the outcome of one call
create_collection(exists, idx, strict, fault) ==
    IF fault = "get_collections"
    THEN [exists |-> exists, indexes |-> idx, raised |-> TRUE, err |-> ErrRefused,
          requested |-> FALSE]
    ELSE IF ~exists
    THEN LET made == client_create_collection(exists, fault = "create_collection")
         IN  IF made.raised
             THEN [exists |-> exists, indexes |-> idx, raised |-> TRUE,
                   err |-> made.err, requested |-> TRUE]
             ELSE [exists |-> TRUE, indexes |-> ensure_indexes(idx, strict, fault),
                   raised |-> FALSE, err |-> NoError, requested |-> TRUE]
    ELSE [exists |-> TRUE, indexes |-> ensure_indexes(idx, strict, fault),
          raised |-> FALSE, err |-> NoError, requested |-> FALSE]

\* how the store reads a Filter over document_id: every must condition
\* holds, and one of the should conditions if there is any
filter_accepts(flt, p) ==
    /\ \A v \in flt.must : p.document_id = v
    /\ flt.should = {} \/ \E v \in flt.should : p.document_id = v

search_filter_must(document_ids) == [must |-> document_ids, should |-> {}]

\* the filter of search (lines 141-155): one condition per document id,
\* Filter(should=...); no filter when there is no id
search_filter(document_ids) == [must |-> {}, should |-> document_ids]

\* the points the filter of search keeps
Matching(pts, document_ids) ==
    {p \in pts : filter_accepts(search_filter(document_ids), p)}

\* the filter of get_initial_chunks (lines 204-209)
InitialRange(pts, document_id, limit) ==
    {p \in pts : p.document_id = document_id /\ 0 <= p.chunk_id /\ p.chunk_id < limit}

\* what the store may answer to a query over the points S: the best `limit`
\* of them, in the order of their scores
Answers(S, limit) ==
    LET k == Min(limit, Cardinality(S))
    IN  {a \in [1..k -> S] : \A i, j \in 1..k : a[i] = a[j] => i = j}

\* client.query_points / client.scroll with a filter over the fields `needs`
client_query(store, needs, fails, answer) ==
    IF fails THEN [raised |-> TRUE, err |-> ErrRefused, points |-> <<>>]
    ELSE IF ~store.exists
    THEN [raised |-> TRUE, err |-> ErrNotFound, points |-> <<>>]
    ELSE IF store.required /\ ~(needs \subseteq store.indexes)
    THEN [raised |-> TRUE, err |-> ErrIndexRequired, points |-> <<>>]
    ELSE [raised |-> FALSE, err |-> NoError, points |-> answer]

\* lines 180-188: one hit per result
Hits(results) ==
    [i \in 1..Len(results) |->
        [id |-> results[i].id, text |-> results[i].text,
         document_id |-> results[i].document_id,
         chunk_id |-> results[i].chunk_id]]

search_inner_except_always_retry(err) == "retry"

\* lines 165-178: the except clause of the first query
search_inner_except(err) ==
    IF Contains(err, PatIndexRequired) THEN "retry" ELSE "raise"

search_outer_except_raise(err) == "raise"

\* lines 193-198: the except clause around the whole search
search_outer_except(err) ==
    IF Contains(err, PatNotFound) \/ Contains(err, PatDoesntExist)
    THEN "empty" ELSE "raise"

\* search: the outcome of one call.  env holds what the environment does
\* during the call: fail1 and fail2 (the first and the second query fail in
\* transport), ensure_fault (a fault of _ensure_indexes) and answer (the
\* points the store returns to the query it accepts).
search(store, document_ids, env) ==
    LET needs == IF document_ids = {} THEN {} ELSE {"document_id"}
        first == client_query(store, needs, env.fail1, env.answer)
        retrying == first.raised /\ search_inner_except(first.err) = "retry"
        healed == ensure_indexes(store.indexes, store.strict, env.ensure_fault)
        retry == client_query([store EXCEPT !.indexes = healed], needs,
                              env.fail2, env.answer)
        last == IF retrying THEN retry ELSE first
        swallowed == last.raised /\ search_outer_except(last.err) = "empty"
    IN  [indexes |-> IF retrying THEN healed ELSE store.indexes,
         calls |-> IF retrying THEN 2 ELSE 1,
         ensured |-> retrying,
         first_err |-> first.err,
         retry_err |-> IF retrying THEN retry.err ELSE NoError,
         accepted |-> ~last.raised,
         raised |-> last.raised /\ ~swallowed,
         err |-> IF last.raised /\ ~swallowed THEN last.err ELSE NoError,
         returned |-> IF last.raised THEN <<>> ELSE Hits(last.points)]

\* sorted(points, key=chunk_id): a stable insertion sort
RECURSIVE SortByChunkId(_)
SortByChunkId(ps) ==
    IF Len(ps) <= 1 THEN ps
    ELSE LET head == SortByChunkId(SubSeq(ps, 1, Len(ps) - 1))
             x == ps[Len(ps)]
             before == SelectSeq(head, LAMBDA p : p.chunk_id <= x.chunk_id)
             after == SelectSeq(head, LAMBDA p : p.chunk_id > x.chunk_id)
         IN  before \o <<x>> \o after

\* lines 218-229: the except clause of the first scroll
scroll_except(err) ==
    IF Contains(err, PatIndexRequired) THEN "retry" ELSE "raise"

\* get_initial_chunks: the outcome of one call; every exception ends in []
get_initial_chunks(store, env) ==
    LET needs == {"document_id", "chunk_id"}
        first == client_query(store, needs, env.fail1, env.answer)
        retrying == first.raised /\ scroll_except(first.err) = "retry"
        healed == ensure_indexes(store.indexes, store.strict, env.ensure_fault)
        retry == client_query([store EXCEPT !.indexes = healed], needs,
                              env.fail2, env.answer)
        last == IF retrying THEN retry ELSE first
        sorted_points == SortByChunkId(last.points)
    IN  [indexes |-> IF retrying THEN healed ELSE store.indexes,
         calls |-> IF retrying THEN 2 ELSE 1,
         ensured |-> retrying,
         first_err |-> first.err,
         retry_err |-> IF retrying THEN retry.err ELSE NoError,
         accepted |-> ~last.raised,
         raised |-> FALSE,
         err |-> NoError,
         returned |-> IF last.raised THEN <<>>
                      ELSE [i \in 1..Len(sorted_points) |-> sorted_points[i].text]]

\* client.delete with a filter on document_id
client_delete(store, fails) ==
    IF fails THEN [raised |-> TRUE, err |-> ErrRefused]
    ELSE IF ~store.exists THEN [raised |-> TRUE, err |-> ErrNotFound]
    ELSE IF store.required /\ "document_id" \notin store.indexes
    THEN [raised |-> TRUE, err |-> ErrIndexRequired]
    ELSE [raised |-> FALSE, err |-> NoError]

delete_vectors_raising(store, ups, fails) ==
    LET r == client_delete(store, fails)
    IN  [upserted |-> IF r.raised THEN ups ELSE {},
         store_failed |-> r.raised, raised |-> r.raised]

\* delete_vectors: every point of the harness collection belongs to the one
\* document, so a delete the store accepts leaves no upsert behind; an
\* exception is logged and not raised (lines 259-261)
delete_vectors(store, ups, fails) ==
    LET r == client_delete(store, fails)
    IN  [upserted |-> IF r.raised THEN ups ELSE {},
         store_failed |-> r.raised, raised |-> FALSE]

\* delete_document (document_service.py lines 163-180) as called by the
\* delete endpoint, which answers success when it returns
delete_document(store, ups, row, store_fails, db_fails) ==
    LET v == delete_vectors(store, ups, store_fails)
    IN  IF v.raised
        THEN [upserted |-> v.upserted, db_row |-> row, store_failed |-> v.store_failed,
              db_called |-> FALSE, raised |-> TRUE]
        ELSE IF db_fails
        THEN [upserted |-> v.upserted, db_row |-> row, store_failed |-> v.store_failed,
              db_called |-> TRUE, raised |-> TRUE]
        ELSE [upserted |-> v.upserted, db_row |-> FALSE, store_failed |-> v.store_failed,
              db_called |-> TRUE, raised |-> FALSE]

(***************************************************************************)
(* Multi-query retrieval (MCQService._get_context_content and              *)
(* _get_relevant_context of the evaluation service).  A hit is its text;   *)
(* texts are numbered, and Sep is the "\n\n" that join puts between two.   *)
(***************************************************************************)
Sep == 0 - 1

Texts == 0..(MaxTexts - 1)

\* the topic of generate_mcq, or the question of the evaluation
Seed == <<"topic">>

\* mcq_service.py line 207: the queries of a call without topic
DefaultQueries == <<<<"important concepts">>, <<"summary">>, <<"key definitions">>>>

\* the lines an expansion response may hold: a query between blanks, a
\* blank line, an empty line
Lines == {<<" ", "related", " ">>, <<" ">>, <<>>}

\* what chat_completion may answer to the expansion prompt, split at "\n"
ExpansionResponses ==
    UNION {[1..k -> Lines] : k \in 0..(MaxExpanded - 1)}

\* q.strip()
strip(line) == SelectSeq(line, LAMBDA f : f # " ")

\* lines 217 / 303: queries.extend([q.strip() for q in ... if q.strip()])
extend(qs, response) ==
    LET kept == SelectSeq(response, LAMBDA ln : strip(ln) # <<>>)
    IN  qs \o [i \in 1..Len(kept) |-> strip(kept[i])]

expansion_except_raise(e) == "raise"

\* lines 218-219 / 304-305: the except clause around the expansion
expansion_except(e) == "pass"

\* generate_mcq before any chat_completion call
NotCalled == [called |-> FALSE, content |-> <<>>]

mcq_without_content_raise(c) == IF c = <<>> THEN "raise" ELSE "continue"

\* mcq_service.py lines 125-127: "if not content" logs a warning
mcq_without_content(c) == "continue"

\* max(3, num_chunks // len(queries)), max(2, ...) in the evaluation service
limit_per_query(floor, budget, qs) ==
    LET share == budget \div Len(qs)
    IN  IF floor > share THEN floor ELSE share

\* what one search may return: at most `limit` hits
SearchResults(limit) == UNION {[1..k -> Texts] : k \in 0..limit}

keep_every(hits, results) == hits \o results

\* the loop "for hit in results: if hit["text"] not in seen_texts: ..."
RECURSIVE keep_unseen(_, _)
keep_unseen(hits, results) ==
    IF results = <<>> THEN hits
    ELSE LET t == Head(results)
             kept == IF \E i \in 1..Len(hits) : hits[i] = t
                     THEN hits ELSE Append(hits, t)
         IN  keep_unseen(kept, Tail(results))

final_chunks_all(hits, budget) == hits

\* [hit["text"] for hit in all_hits][:num_chunks]
final_chunks(hits, budget) == SubSeq(hits, 1, Min(budget, Len(hits)))

\* "\n\n".join(final_chunks)
RECURSIVE join(_)
join(parts) ==
    IF Len(parts) = 0 THEN <<>>
    ELSE IF Len(parts) = 1 THEN parts
    ELSE <<Head(parts), Sep>> \o join(Tail(parts))

retrieval_except_partial(hits, budget) == join(final_chunks(hits, budget))

\* mcq_service.py lines 252-254, evaluation_service.py lines 338-340: the
\* except clause around the whole retrieval returns "" (notes_service.py
\* lines 144-146 re-raises, which hands no context to its caller either)
retrieval_except(hits, budget) == <<>>

(***************************************************************************)
(* Streamed chat (RAGService.get_answer_stream and stream_and_save of the  *)
(* chat endpoint).  A text is a sequence of fragments and a chunk of the   *)
(* stream is a text; the marker is one fragment, which answer texts and    *)
(* error texts do not hold.                                                *)
(***************************************************************************)
Marker == "__SOURCES__:"

\* the retrieved documents a context may carry: two chunks of one document
\* and one chunk of a document whose payload has no document_name
RetrievedDocs ==
    {[document_id |-> "d1", document_name |-> "a.pdf", page_content |-> "p1"],
     [document_id |-> "d1", document_name |-> "a.pdf", page_content |-> "p2"],
     [document_id |-> "d2", document_name |-> "Unknown", page_content |-> "p3"]}

\* what chain.astream may yield: an answer delta, a context of distinct
\* retrieved chunks, another key
UpstreamChunks ==
    {[key |-> "answer", answer |-> a, context |-> <<>>] : a \in {<<"a">>, <<>>}}
    \cup {[key |-> "context", answer |-> <<>>, context |-> c] :
            c \in UNION {{d \in [1..k -> RetrievedDocs] :
                            \A i, j \in 1..k : d[i] = d[j] => i = j} :
                         k \in 1..MaxDocs}}
    \cup {[key |-> "input", answer |-> <<>>, context |-> <<>>]}

\* the texts of the exceptions the generation may raise
GenerationErrors == {<<"model overloaded">>, <<>>}

RECURSIVE Flat(_)
\* the concatenation of a sequence of texts
Flat(cs) == IF cs = <<>> THEN <<>> ELSE Head(cs) \o Flat(Tail(cs))

\* lines 178-191: one source per document of the context; names maps the ids
\* the documents table resolves to their filename
source_of(doc, names) ==
    [doc_id |-> doc.document_id,
     doc_name |-> IF doc.document_name = "Unknown" /\ doc.document_id # ""
                     /\ doc.document_id \in DOMAIN names
                  THEN names[doc.document_id] ELSE doc.document_name,
     chunk_text |-> doc.page_content \o "..."]

RECURSIVE capture_context_per_document(_, _, _)
capture_context_per_document(data, context, names) ==
    IF context = <<>> THEN data
    ELSE LET src == source_of(Head(context), names)
             known == \E i \in 1..Len(data) : data[i].doc_id = src.doc_id
         IN  capture_context_per_document(IF known THEN data ELSE Append(data, src),
                                          Tail(context), names)

\* lines 176-191: sources_sent stays False, so every context is captured
capture_context(data, context, names) ==
    data \o [i \in 1..Len(context) |-> source_of(context[i], names)]

RECURSIVE json_items(_)
json_items(data) ==
    IF data = <<>> THEN <<>>
    ELSE <<"{", data[1].doc_id, data[1].doc_name, data[1].chunk_text, "}">>
         \o (IF Len(data) > 1 THEN <<",">> ELSE <<>>) \o json_items(Tail(data))

\* json.dumps of a list of sources
json_dumps(data) == <<"[">> \o json_items(data) \o <<"]">>

Invalid == [ok |-> FALSE, value |-> <<>>]

RECURSIVE parse_items(_)
\* the objects of a comma separated list
parse_items(fs) ==
    IF Len(fs) < 5 \/ fs[1] # "{" \/ fs[5] # "}" THEN Invalid
    ELSE LET item == [doc_id |-> fs[2], doc_name |-> fs[3], chunk_text |-> fs[4]]
         IN  IF Len(fs) = 5 THEN [ok |-> TRUE, value |-> <<item>>]
             ELSE IF fs[6] # "," THEN Invalid
             ELSE LET rest == parse_items(SubSeq(fs, 7, Len(fs)))
                  IN  IF rest.ok THEN [ok |-> TRUE, value |-> <<item>> \o rest.value]
                      ELSE Invalid

\* json.loads: ok and the list a text encodes, or not ok where it raises
json_loads(fs) ==
    IF Len(fs) < 2 \/ fs[1] # "[" \/ fs[Len(fs)] # "]" THEN Invalid
    ELSE IF Len(fs) = 2 THEN [ok |-> TRUE, value |-> <<>>]
    ELSE parse_items(SubSeq(fs, 2, Len(fs) - 1))

\* "__SOURCES__:" in chunk
HasMarker(c) == \E i \in 1..Len(c) : c[i] = Marker

\* chunk.split("__SOURCES__:")[0] and [1] of a chunk that holds the marker
split_parts(c) ==
    LET at == {i \in 1..Len(c) : c[i] = Marker}
        first == CHOOSE i \in at : \A j \in at : i <= j
        later == {i \in at : i > first}
        second == IF later = {} THEN Len(c) + 1
                  ELSE CHOOSE i \in later : \A j \in later : i <= j
    IN  <<SubSeq(c, 1, first - 1), SubSeq(c, first + 1, second - 1)>>

\* line 195: the last chunk of a generation that ended
sources_chunk(data) == <<"\n\n", Marker>> \o json_dumps(data)

get_answer_stream_reraise(e) == [raised |-> TRUE, chunk |-> <<>>]

\* lines 197-199: the except clause of get_answer_stream
get_answer_stream_except(e) == [raised |-> FALSE, chunk |-> <<"Error: ">> \o e]

(***************************************************************************)
(* Blocking chat (chat_message of the chat endpoint and                    *)
(* RAGService.get_answer) and the retriever of _get_retrieval_chain.       *)
(***************************************************************************)
\* search_kwargs = {"k": 5}
retriever_k == 5

\* rag_service.py lines 40-53: one condition per selected document,
\* Filter(must=...); no filter when nothing is selected
chain_filter(selected) == [must |-> selected, should |-> {}]

\* the chunks the retriever of the chain may return from the chunks stored
retrievable(stored, selected) ==
    {p \in stored : filter_accepts(chain_filter(selected), p)}

\* rag_service.py lines 109-128: one source per document of the context
get_answer_sources(docs, names) ==
    [i \in 1..Len(docs) |-> source_of(docs[i], names)]

get_answer_except_fallback(e) == [raised |-> FALSE, answer |-> <<"Error: ">> \o e]

\* rag_service.py lines 135-137: the except clause of get_answer
get_answer_except(e) == [raised |-> TRUE, answer |-> <<>>]

\* the response of chat_message
NoResult == [status |-> 0, answer |-> <<>>, sources |-> <<>>, detail |-> <<>>]

\* chat.py line 78: return result
Ok200(answer, srcs) ==
    [status |-> 200, answer |-> answer, sources |-> srcs, detail |-> <<>>]

\* chat.py lines 79-80: raise HTTPException(500, str(e))
Http500(e) == [status |-> 500, answer |-> <<>>, sources |-> <<>>, detail |-> e]

\* generate_embeddings: one vector per text, in order
generate_embeddings(texts) == [k \in 1..Len(texts) |-> "vec"]

\* upsert_chunks: one point per zipped (chunk, embedding, metadata); tag stands
\* for the fresh uuid4 ids of this call.  The payload keeps text, document_id
\* and chunk_id.
upsert_chunks(pts, cks, embeddings, metadata, tag) ==
    pts \cup { [id |-> <<tag, i>>,
                text |-> cks[i],
                document_id |-> metadata[i].document_id,
                chunk_id |-> metadata[i].chunk_id] :
               i \in 1..Min(Len(cks), Min(Len(embeddings), Len(metadata))) }

(***************************************************************************)
(* Document service.                                                       *)
(***************************************************************************)
update_document_status_no_message(cur_message, st, msg) ==
    [status |-> st,
     message |-> IF st = "completed" THEN None ELSE cur_message]

\* _update_document_status: the row after the update
update_document_status(cur_message, st, msg) ==
    [status |-> st,
     message |-> IF st = "completed" THEN None
                 ELSE IF Truthy(msg) THEN msg ELSE cur_message]

\* lines 157-161: the update raised; the except clause logs the error and
\* the row keeps what it held
status_write_except(row, e) == row

\* batches: (start index, slice) for i in range(0, len(chunks), batch_size)
total_batches(cks) == (Len(cks) + batch_size - 1) \div batch_size

batches(cks) ==
    [idx \in 0..(total_batches(cks) - 1) |->
        [start_index |-> idx * batch_size,
         batch_data |-> SubSeq(cks, idx * batch_size + 1,
                               Min(idx * batch_size + batch_size, Len(cks)))]]

batch_metadata_local(start_index, batch_data) ==
    [k \in 1..Len(batch_data) |->
        [document_id |-> DocumentId, chunk_id |-> k - 1]]

\* batch_metadata of process_batch
batch_metadata(start_index, batch_data) ==
    [k \in 1..Len(batch_data) |->
        [document_id |-> DocumentId, chunk_id |-> start_index + (k - 1)]]

wait_time_flat(attempt, batch_idx) == 10 + (batch_idx % 5)

\* wait_time = (2 ** attempt) + (0.1 * (batch_idx % 5)), in tenths of a second
wait_time(attempt, batch_idx) == 10 * (2 ^ attempt) + (batch_idx % 5)

\* what the except clause of process_batch does with exception e
except_clause_raise_at_once(e, attempt) ==
    IF IsRateLimit(e) /\ attempt < retries - 1 THEN "sleep" ELSE "raise"

except_clause_one_retry(e, attempt) ==
    IF IsRateLimit(e) /\ attempt < retries - 2 THEN "sleep"
    ELSE IF attempt >= retries - 2 THEN "raise" ELSE "next_attempt"

except_clause_no_raise(e, attempt) ==
    IF IsRateLimit(e) /\ attempt < retries - 1 THEN "sleep"
    ELSE IF attempt = retries - 1 THEN "return" ELSE "next_attempt"

except_clause(e, attempt) ==
    IF IsRateLimit(e) /\ attempt < retries - 1 THEN "sleep"
    ELSE IF attempt = retries - 1 THEN "raise" ELSE "next_attempt"

extraction_failed_none_only(t) == t = None

\* line 41: if not text
extraction_failed(t) == ~Truthy(t)

outer_except_reraise(e) == "raised"

\* lines 138-140: the outer handler logs e, writes failed and returns; the
\* position of process_document after it
outer_except(e) == "done"

no_chunks_never(cks) == FALSE

\* line 54: if not chunks
no_chunks(cks) == Len(cks) = 0

\* the ways generate_document_topics ends
TopicsOutcomes == {"topics", "no_chunks", "llm_raised", "unparseable", "write_failed",
                   "raise"}

after_topics_marks_failure(row, outcome) ==
    IF outcome \in {"llm_raised", "write_failed"}
    THEN update_document_status(row.message, "processing", MsgTopicsFailed)
    ELSE row

after_topics_unguarded(row, outcome) ==
    IF outcome = "raise"
    THEN update_document_status(row.message, "failed", ErrTimeout)
    ELSE row

\* lines 131-136: the row after generate_document_topics returned or raised
after_topics(row, outcome) == row

(***************************************************************************)
(* Initial states.  The document row was inserted with status pending by   *)
(* the upload endpoint; the project's collection exists with both indexes  *)
(* or not at all.  Init runs short documents with failures of every batch  *)
(* and the long document without failures; InitWide runs the long document *)
(* with failures of one batch.  The adapter harness starts from every      *)
(* store state.                                                            *)
(***************************************************************************)
InitCommon ==
    /\ status = "pending"
    /\ message = None
    /\ failed_by = "none"
    /\ exc_origin = "none"
    /\ text = None
    /\ topics_outcome = "none"
    /\ ensure_log = <<>>
    /\ semaphore = 0
    /\ waiters = <<>>
    /\ task = EmptyFn
    /\ attempts = EmptyFn
    /\ task_error = EmptyFn
    /\ gather_exc = NoError
    /\ gather_from = -1
    /\ embed_calls = 0
    /\ query_log = <<>>
    /\ delete_log = <<>>
    /\ db_row = TRUE

\* no retrieval is running
RetrievalIdle ==
    /\ r_pc = "idle"
    /\ min_per_query = 3
    /\ queries = <<>>
    /\ num_chunks = 0
    /\ q_idx = 1
    /\ all_hits = <<>>
    /\ seen_texts = {}
    /\ hits_total = 0
    /\ content = <<>>
    /\ search_log = <<>>
    /\ expansion = "none"
    /\ r_exc = "none"
    /\ generation = NotCalled
    /\ mcq_outcome = "none"

\* no chat request is running
StreamIdle ==
    /\ s_pc = "off"
    /\ upstream = <<>>
    /\ gen_error = NoError
    /\ sources_data = <<>>
    /\ chunk = <<>>
    /\ full_answer = <<>>
    /\ sources = <<>>
    /\ received = <<>>
    /\ chat_messages = <<>>
    /\ insert_attempts = 0

\* no chat_message request is running
ChatIdle ==
    /\ c_pc = "off"
    /\ selected_documents = {}
    /\ response_context = <<>>
    /\ result = NoResult
    /\ chat_history = <<>>
    /\ other_left = 0

\* the pipeline and the adapter harness are not running
PipelineIdle ==
    /\ InitCommon
    /\ pc = "idle"
    /\ harness = FALSE
    /\ chunks = <<>>
    /\ collection_exists = TRUE
    /\ payload_indexes = AllIndexes
    /\ upserted = {}
    /\ strict_index = FALSE
    /\ index_required = FALSE
    /\ faults_left = 0
    /\ db_faults_left = 0
    /\ lost_replies = FALSE
    /\ fault_targets = {}
    /\ fault_texts = {}

Init ==
    /\ InitCommon
    /\ pc = "new"
    /\ harness = FALSE
    /\ chunks \in {MakeChunks(n) : n \in ChunkCounts(MaxChunks) \cup {WideChunks}}
    /\ collection_exists \in BOOLEAN
    /\ payload_indexes = IF collection_exists THEN AllIndexes ELSE {}
    /\ strict_index = FALSE
    /\ faults_left = IF Len(chunks) > MaxChunks THEN 0 ELSE MaxFaults
    /\ db_faults_left = 0
    /\ lost_replies = FALSE
    /\ fault_targets = 0..(total_batches(chunks) - 1)
    /\ fault_texts \in FaultTextSets
    /\ upserted = {}
    /\ index_required = FALSE
    /\ RetrievalIdle
    /\ StreamIdle
    /\ ChatIdle

\* a run during which the database refuses status updates, or the embed and
\* upsert calls raise exceptions without text, or the store applies an upsert
\* and the call still raises because the reply does not arrive
InitOutage ==
    /\ InitCommon
    /\ pc = "new"
    /\ harness = FALSE
    /\ chunks \in {MakeChunks(n) : n \in {0, 1, batch_size + 1, WideChunks}}
    /\ collection_exists \in BOOLEAN
    /\ payload_indexes = IF collection_exists THEN AllIndexes ELSE {}
    /\ strict_index = FALSE
    /\ faults_left = IF Len(chunks) > MaxChunks THEN 0 ELSE OutageFaults
    /\ fault_targets = 0..(total_batches(chunks) - 1)
    /\ \/ /\ db_faults_left = MaxDbFaults
          /\ fault_texts = {ErrHttp429, ErrTimeout}
          /\ lost_replies = FALSE
       \/ /\ db_faults_left = 0
          /\ fault_texts = {ErrHttp429, ErrSilent}
          /\ lost_replies = FALSE
       \/ /\ db_faults_left = 0
          /\ fault_texts = {ErrHttp429, ErrTimeout}
          /\ lost_replies = TRUE
    /\ upserted = {}
    /\ index_required = FALSE
    /\ RetrievalIdle
    /\ StreamIdle
    /\ ChatIdle

InitWide ==
    /\ InitCommon
    /\ pc = "new"
    /\ harness = FALSE
    /\ chunks = MakeChunks(WideChunks)
    /\ collection_exists = TRUE
    /\ payload_indexes = AllIndexes
    /\ strict_index = FALSE
    /\ faults_left = WideFaults
    /\ db_faults_left = 0
    /\ lost_replies = FALSE
    /\ fault_targets = {WideFaulty}
    /\ fault_texts = {ErrHttp429}
    /\ upserted = {}
    /\ index_required = FALSE
    /\ RetrievalIdle
    /\ StreamIdle
    /\ ChatIdle

InitAdapter ==
    /\ InitCommon
    /\ pc = "idle"
    /\ harness = TRUE
    /\ chunks = MakeChunks(HarnessChunks)
    /\ collection_exists \in BOOLEAN
    /\ payload_indexes \in IF collection_exists THEN SUBSET AllIndexes ELSE {{}}
    /\ upserted \in IF collection_exists THEN {{}, {<<0, 1>>}} ELSE {{}}
    /\ strict_index \in BOOLEAN
    /\ index_required \in BOOLEAN
    /\ faults_left = 0
    /\ db_faults_left = 0
    /\ lost_replies = FALSE
    /\ fault_targets = {}
    /\ fault_texts = {}
    /\ RetrievalIdle
    /\ StreamIdle
    /\ ChatIdle

\* a retrieval has been called: by generate_mcq with a topic or without one,
\* or by the evaluation service with the question; the project's collection
\* exists or has not been created
InitRetrieval ==
    /\ InitCommon
    /\ pc = "idle"
    /\ harness = FALSE
    /\ chunks = <<>>
    /\ collection_exists \in BOOLEAN
    /\ payload_indexes = IF collection_exists THEN AllIndexes ELSE {}
    /\ upserted = {}
    /\ strict_index = FALSE
    /\ index_required = FALSE
    /\ faults_left = 0
    /\ db_faults_left = 0
    /\ lost_replies = FALSE
    /\ fault_targets = {}
    /\ fault_texts = {}
    /\ min_per_query \in {2, 3}
    /\ \/ /\ queries = <<Seed>>
          /\ r_pc = "expand"
       \/ /\ min_per_query = 3
          /\ queries = DefaultQueries
          /\ r_pc = "search"
    /\ num_chunks \in 1..MaxBudget
    /\ q_idx = 1
    /\ all_hits = <<>>
    /\ seen_texts = {}
    /\ hits_total = 0
    /\ content = <<>>
    /\ search_log = <<>>
    /\ expansion = "none"
    /\ r_exc = "none"
    /\ generation = NotCalled
    /\ mcq_outcome = "none"
    /\ StreamIdle
    /\ ChatIdle

\* a chat_stream request has arrived
InitStream ==
    /\ PipelineIdle
    /\ RetrievalIdle
    /\ s_pc = "request"
    /\ upstream = <<>>
    /\ gen_error = NoError
    /\ sources_data = <<>>
    /\ chunk = <<>>
    /\ full_answer = <<>>
    /\ sources = <<>>
    /\ received = <<>>
    /\ chat_messages = <<>>
    /\ insert_attempts = 0
    /\ ChatIdle

\* the turns of an earlier exchange of the project
PriorExchange ==
    <<[role |-> "user", content |-> <<"earlier question">>, sources |-> <<>>],
      [role |-> "assistant", content |-> <<"earlier answer">>, sources |-> <<>>]>>

\* the document ids a chat request may select
ChatSelections == {{}, {"d1"}, {"d2"}, {"d1", "d2"}}

\* a chat_message request has arrived; the project's collection holds the
\* chunks RetrievedDocs of its two documents
InitChat ==
    /\ PipelineIdle
    /\ RetrievalIdle
    /\ s_pc = "off"
    /\ upstream = <<>>
    /\ gen_error = NoError
    /\ sources_data = <<>>
    /\ chunk = <<>>
    /\ full_answer = <<>>
    /\ sources = <<>>
    /\ received = <<>>
    /\ chat_messages \in {<<>>, PriorExchange}
    /\ insert_attempts = 0
    /\ c_pc = "request"
    /\ selected_documents \in ChatSelections
    /\ response_context = <<>>
    /\ result = NoResult
    /\ chat_history = <<>>
    /\ other_left = 0

\* a chat_message request has arrived while a second request of the same
\* project is about to insert its turns
InitChatPair ==
    /\ PipelineIdle
    /\ RetrievalIdle
    /\ s_pc = "off"
    /\ upstream = <<>>
    /\ gen_error = NoError
    /\ sources_data = <<>>
    /\ chunk = <<>>
    /\ full_answer = <<>>
    /\ sources = <<>>
    /\ received = <<>>
    /\ chat_messages \in {<<>>, PriorExchange}
    /\ insert_attempts = 0
    /\ c_pc = "request"
    /\ selected_documents \in ChatSelections
    /\ response_context = <<>>
    /\ result = NoResult
    /\ chat_history = <<>>
    /\ other_left = OtherTurns

(***************************************************************************)
(* process_document, one action per stretch between two suspensions.       *)
(* chunks holds the chunker's answer for the uploaded content from the     *)
(* start; the code reads it from ChunkReturn on.                           *)
(***************************************************************************)
\* whether the database refuses the next k status updates
Refusals(k) == IF db_faults_left >= k THEN BOOLEAN ELSE {FALSE}

\* the row after one _update_document_status call
written(row, st, msg, refused) ==
    IF refused THEN status_write_except(row, ErrRefused)
    ELSE update_document_status(row.message, st, msg)

WriteStatus(st, msg) ==
    \E refused \in Refusals(1) :
        LET row == written([status |-> status, message |-> message], st, msg, refused)
        IN  /\ status' = row.status
            /\ message' = row.message
            /\ db_faults_left' = db_faults_left - (IF refused THEN 1 ELSE 0)

\* lines 32-39: processing, "Extracting text...", extraction submitted
Begin ==
    /\ pc = "new"
    /\ UNCHANGED otherVars
    /\ \E first \in Refusals(1) :
          \E second \in Refusals(1 + (IF first THEN 1 ELSE 0)) :
             LET row == written(written([status |-> status, message |-> message],
                                        "processing", None, first),
                                "processing", MsgExtracting, second)
             IN  /\ status' = row.status
                 /\ message' = row.message
                 /\ db_faults_left' = db_faults_left - (IF first THEN 1 ELSE 0)
                                                     - (IF second THEN 1 ELSE 0)
    /\ pc' = "extract"
    /\ UNCHANGED <<failed_by, exc_origin, text, chunks, topics_outcome>>
    /\ UNCHANGED <<storeVars, taskVars, faultVars>>

\* lines 39-48: extraction returned None, "" or a non-empty text
ExtractReturn ==
    /\ pc = "extract"
    /\ UNCHANGED otherVars
    /\ \E t \in {None, <<>>, <<"document text">>} :
          /\ text' = t
          /\ IF extraction_failed(t)
             THEN /\ WriteStatus("failed", MsgExtractFailed)
                  /\ failed_by' = "extract"
                  /\ pc' = "done"
             ELSE /\ WriteStatus("processing", MsgChunking)
                  /\ failed_by' = failed_by
                  /\ pc' = "chunk"
    /\ UNCHANGED <<exc_origin, chunks, topics_outcome>>
    /\ UNCHANGED <<storeVars, taskVars, faultVars>>

\* lines 49-56 and 138-140: the chunker returned a list, or raised
ChunkReturn ==
    /\ pc = "chunk"
    /\ UNCHANGED otherVars
    /\ \/ /\ no_chunks(chunks)
          /\ WriteStatus("failed", MsgNoChunks)
          /\ failed_by' = "chunk"
          /\ exc_origin' = exc_origin
          /\ pc' = "done"
       \/ /\ ~no_chunks(chunks)
          /\ UNCHANGED <<status, message, failed_by, exc_origin, db_faults_left>>
          /\ pc' = "ensure"
       \/ /\ WriteStatus("failed", ErrTimeout)
          /\ failed_by' = "exception"
          /\ exc_origin' = "chunk_text"
          /\ pc' = outer_except(ErrTimeout)
    /\ UNCHANGED <<text, chunks, topics_outcome>>
    /\ UNCHANGED <<storeVars, taskVars, faultVars>>

\* lines 62-67 and 138-140: create_collection, then the progress message
EnsureCollection ==
    /\ pc = "ensure"
    /\ UNCHANGED otherVars
    /\ \E fault \in StoreFaults :
          LET r == create_collection(collection_exists, payload_indexes,
                                     strict_index, fault)
          IN  /\ collection_exists' = r.exists
              /\ payload_indexes' = r.indexes
              /\ ensure_log' = Append(ensure_log,
                                      [requested |-> r.requested, raised |-> r.raised,
                                       fault |-> fault])
              /\ IF r.raised
                 THEN /\ WriteStatus("failed", r.err)
                      /\ failed_by' = "exception"
                      /\ exc_origin' = "create_collection"
                      /\ pc' = outer_except(r.err)
                 ELSE /\ WriteStatus("processing", MsgGenerating(Len(chunks)))
                      /\ UNCHANGED <<failed_by, exc_origin>>
                      /\ pc' = "dispatch"
    /\ UNCHANGED <<text, chunks, topics_outcome>>
    /\ UNCHANGED <<taskVars, faultVars>>

\* lines 70-125: batches, semaphore, one task per batch; gather suspends and the
\* event loop runs every task up to its first suspension, in list order
Dispatch ==
    /\ pc = "dispatch"
    /\ UNCHANGED otherVars
    /\ LET n == total_batches(chunks)
           admitted == Min(n, SemaphoreSlots)
       IN  /\ semaphore' = SemaphoreSlots - admitted
           /\ waiters' = [i \in 1..(n - admitted) |-> admitted + i - 1]
           /\ task' = [b \in 0..(n - 1) |->
                          IF b < admitted THEN [st |-> "embedding", attempt |-> 0]
                                          ELSE [st |-> "waiting", attempt |-> 0]]
           /\ attempts' = [b \in 0..(n - 1) |-> <<>>]
           /\ task_error' = [b \in 0..(n - 1) |-> NoError]
           /\ embed_calls' = embed_calls + admitted
    /\ pc' = "gather"
    /\ UNCHANGED <<status, message, failed_by, exc_origin, text, chunks>>
    /\ UNCHANGED <<gather_exc, gather_from, upserted, faults_left>>
    /\ UNCHANGED <<storeVars, envVars>>

(***************************************************************************)
(* process_batch.  upsert_chunks has no suspension point, so the return of *)
(* generate_embeddings, the upsert and the except clause are one step.     *)
(* Every finished attempt leaves a record: whether upsert_chunks was       *)
(* called, the exception of the attempt and the sleep that followed.       *)
(***************************************************************************)
\* The arguments of an upsert_chunks call are fixed by its batch, so the
\* collection is kept as the set of calls that succeeded, each named by
\* <<batch_idx, attempt>>; points is what these calls wrote (lines 91-109).
points ==
    UNION { LET bt == batches(chunks)[call[1]]
            IN  upsert_chunks({}, bt.batch_data,
                              generate_embeddings(bt.batch_data),
                              batch_metadata(bt.start_index, bt.batch_data),
                              call) : call \in upserted }

InSlot == {b \in DOMAIN task : task[b].st \in {"embedding", "sleeping"}}

AttemptRecord(upsert, error, slept) ==
    [upsert |-> upsert, error |-> error, slept |-> slept]

\* calls of upsert_chunks made by batch b
upsert_calls(b) == Cardinality({i \in 1..Len(attempts[b]) : attempts[b][i].upsert})

\* the sleeps of batch b, in order
backoffs(b) ==
    LET slept == SelectSeq(attempts[b], LAMBDA a : a.slept > 0)
    IN  [i \in 1..Len(slept) |-> slept[i].slept]

Release_leaking == semaphore' = semaphore

\* the task leaves "async with semaphore"
Release == semaphore' = semaphore + 1

\* lines 112-121 for exception e of the current attempt; upsert tells whether
\* upsert_chunks had been called
Except(b, e, upsert) ==
    LET what == except_clause(e, task[b].attempt)
        slept == IF what = "sleep" THEN wait_time(task[b].attempt, b) ELSE 0
    IN  /\ attempts' = [attempts EXCEPT ![b] = Append(@, AttemptRecord(upsert, e, slept))]
        /\ what = "sleep" =>
              /\ task' = [task EXCEPT ![b].st = "sleeping"]
              /\ UNCHANGED <<task_error, gather_exc, gather_from, semaphore, embed_calls>>
        /\ what = "raise" =>
              /\ task' = [task EXCEPT ![b].st = "raised"]
              /\ task_error' = [task_error EXCEPT ![b] = e]
              /\ IF gather_exc = NoError
                 THEN gather_exc' = e /\ gather_from' = b
                 ELSE UNCHANGED <<gather_exc, gather_from>>
              /\ Release
              /\ UNCHANGED embed_calls
        /\ what = "next_attempt" =>
              /\ task' = [task EXCEPT ![b].attempt = @ + 1]
              /\ embed_calls' = embed_calls + 1
              /\ UNCHANGED <<task_error, gather_exc, gather_from, semaphore>>
        /\ what = "return" =>
              /\ task' = [task EXCEPT ![b].st = "done"]
              /\ Release
              /\ UNCHANGED <<task_error, gather_exc, gather_from, embed_calls>>

\* lines 91-110: generate_embeddings returned and the batch was upserted
AttemptSucceeds(b) ==
    /\ task[b].st = "embedding"
    /\ UNCHANGED otherVars
    /\ upserted' = upserted \cup {<<b, task[b].attempt>>}
    /\ attempts' = [attempts EXCEPT ![b] = Append(@, AttemptRecord(TRUE, NoError, 0))]
    /\ task' = [task EXCEPT ![b].st = "done"]
    /\ Release
    /\ UNCHANGED <<waiters, task_error, gather_exc, gather_from, embed_calls,
                   faults_left>>
    /\ UNCHANGED <<docVars, storeVars, envVars>>

\* line 91 raises
EmbedFails(b) ==
    /\ task[b].st = "embedding"
    /\ UNCHANGED otherVars
    /\ b \in fault_targets
    /\ faults_left > 0
    /\ faults_left' = faults_left - 1
    /\ \E e \in fault_texts : Except(b, e, FALSE)
    /\ UNCHANGED <<waiters, upserted>>
    /\ UNCHANGED <<docVars, storeVars, envVars>>

\* line 104 raises: the call was made and no point was written, or, when
\* replies get lost, the points were written and the reply did not arrive
UpsertFails(b) ==
    /\ task[b].st = "embedding"
    /\ UNCHANGED otherVars
    /\ b \in fault_targets
    /\ faults_left > 0
    /\ faults_left' = faults_left - 1
    /\ \E e \in fault_texts : Except(b, e, TRUE)
    /\ \E applied \in (IF lost_replies THEN BOOLEAN ELSE {FALSE}) :
          upserted' = IF applied THEN upserted \cup {<<b, task[b].attempt>>}
                      ELSE upserted
    /\ UNCHANGED waiters
    /\ UNCHANGED <<docVars, storeVars, envVars>>

\* lines 117-118: the sleep is over, next attempt
Wake(b) ==
    /\ task[b].st = "sleeping"
    /\ UNCHANGED otherVars
    /\ task' = [task EXCEPT ![b] = [st |-> "embedding", attempt |-> @.attempt + 1]]
    /\ embed_calls' = embed_calls + 1
    /\ UNCHANGED <<semaphore, waiters, attempts, task_error, gather_exc,
                   gather_from, upserted, faults_left>>
    /\ UNCHANGED <<docVars, storeVars, envVars>>

AdmitUnbounded ==
    /\ waiters # <<>>
    /\ UNCHANGED otherVars
    /\ semaphore' = semaphore - 1
    /\ waiters' = Tail(waiters)
    /\ task' = [task EXCEPT ![Head(waiters)].st = "embedding"]
    /\ embed_calls' = embed_calls + 1
    /\ UNCHANGED <<attempts, task_error, gather_exc, gather_from, upserted, faults_left>>
    /\ UNCHANGED <<docVars, storeVars, envVars>>

\* line 84: the longest-waiting task gets the freed slot
Admit ==
    /\ semaphore > 0
    /\ UNCHANGED otherVars
    /\ waiters # <<>>
    /\ semaphore' = semaphore - 1
    /\ waiters' = Tail(waiters)
    /\ task' = [task EXCEPT ![Head(waiters)].st = "embedding"]
    /\ embed_calls' = embed_calls + 1
    /\ UNCHANGED <<attempts, task_error, gather_exc, gather_from, upserted, faults_left>>
    /\ UNCHANGED <<docVars, storeVars, envVars>>

\* lines 125-129: every task returned
GatherReturn ==
    /\ pc = "gather"
    /\ UNCHANGED otherVars
    /\ \A b \in DOMAIN task : task[b].st = "done"
    /\ WriteStatus("completed", None)
    /\ pc' = "topics"
    /\ UNCHANGED <<failed_by, exc_origin, text, chunks, topics_outcome>>
    /\ UNCHANGED <<storeVars, taskVars, faultVars>>

GatherRaiseRollback ==
    /\ pc = "gather"
    /\ UNCHANGED otherVars
    /\ gather_exc # NoError
    /\ WriteStatus("failed", gather_exc)
    /\ failed_by' = "exception"
    /\ exc_origin' = "process_batch"
    /\ pc' = "done"
    /\ upserted' = {}
    /\ UNCHANGED <<text, chunks, topics_outcome>>
    /\ UNCHANGED <<semaphore, waiters, task, attempts, task_error, gather_exc,
                   gather_from, embed_calls, faults_left>>
    /\ UNCHANGED <<storeVars, faultVars>>

\* lines 125 and 138-140: a task raised, the outer handler writes failed
GatherRaise ==
    /\ pc = "gather"
    /\ UNCHANGED otherVars
    /\ gather_exc # NoError
    /\ WriteStatus("failed", gather_exc)
    /\ failed_by' = "exception"
    /\ exc_origin' = "process_batch"
    /\ pc' = outer_except(gather_exc)
    /\ UNCHANGED <<text, chunks, topics_outcome>>
    /\ UNCHANGED <<storeVars, taskVars, faultVars>>

\* lines 132-136 and mcq_service.py lines 16-65: generate_document_topics
\* returns the topics it stored, or [] for a document without initial chunks,
\* a generation that raised, an answer without a JSON list or a topics update
\* that raised; an exception that leaves it is logged by process_document
TopicsReturn ==
    /\ pc = "topics"
    /\ UNCHANGED otherVars
    /\ \E outcome \in TopicsOutcomes :
          LET row == after_topics([status |-> status, message |-> message], outcome)
          IN  /\ status' = row.status
              /\ message' = row.message
              /\ topics_outcome' = outcome
    /\ pc' = "done"
    /\ UNCHANGED <<failed_by, exc_origin, text, chunks, db_faults_left>>
    /\ UNCHANGED <<storeVars, taskVars, faultVars>>

(***************************************************************************)
(* Adapter harness: create_collection, search, get_initial_chunks and      *)
(* delete_document called for one collection, from every store state.      *)
(***************************************************************************)
\* adapter calls the harness has made
AdapterCalls == Len(ensure_log) + Len(query_log) + Len(delete_log)

CreateCollectionCall ==
    /\ harness
    /\ UNCHANGED otherVars
    /\ AdapterCalls < MaxCalls
    /\ \E fault \in StoreFaults :
          LET r == create_collection(collection_exists, payload_indexes,
                                     strict_index, fault)
          IN  /\ collection_exists' = r.exists
              /\ payload_indexes' = r.indexes
              /\ ensure_log' = Append(ensure_log,
                                      [requested |-> r.requested, raised |-> r.raised,
                                       fault |-> fault])
    /\ UNCHANGED <<docVars, taskVars, envVars>>

\* the store as one adapter call finds it
Store ==
    [exists |-> collection_exists, indexes |-> payload_indexes,
     strict |-> strict_index, required |-> index_required]

\* the chunk of the second document
OtherPoints ==
    {[id |-> <<<<0 - 1, 0>>, 1>>, text |-> TextPeriod,
      document_id |-> OtherDocumentId, chunk_id |-> 0]}

\* the points of the harness collection: those of the upserts and the chunk
\* of the second document
StorePoints == IF collection_exists THEN points \cup OtherPoints ELSE {}

\* the selections of the harness: none, one document, both documents
Selections == {{}, {DocumentId}, {DocumentId, OtherDocumentId}}

\* what the environment may do during one query call
QueryEnvs(S, limit) ==
    [fail1 : BOOLEAN, fail2 : BOOLEAN,
     ensure_fault : {"none", "index_document_id", "index_chunk_id"},
     answer : Answers(S, limit)]

QueryRecord(op, ids, limit, env, r) ==
    [op |-> op, document_ids |-> ids, limit |-> limit, stored |-> StorePoints,
     accepted |-> r.accepted,
     exists |-> collection_exists, fail1 |-> env.fail1,
     calls |-> r.calls, ensured |-> r.ensured, first_err |-> r.first_err,
     retry_err |-> r.retry_err,
     answer |-> IF r.accepted THEN env.answer ELSE <<>>,
     raised |-> r.raised, err |-> r.err, returned |-> r.returned]

SearchCall ==
    /\ harness
    /\ AdapterCalls < MaxCalls
    /\ \E document_ids \in Selections, limit \in {1, HarnessChunks} :
         \E env \in QueryEnvs(Matching(StorePoints, document_ids), limit) :
            LET r == search(Store, document_ids, env)
            IN  /\ payload_indexes' = r.indexes
                /\ query_log' = Append(query_log, QueryRecord("search", document_ids, limit, env, r))
    /\ UNCHANGED <<collection_exists, ensure_log, index_required, delete_log, db_row>>
    /\ UNCHANGED <<docVars, taskVars, envVars, serviceVars>>

GetInitialChunksCall ==
    /\ harness
    /\ AdapterCalls < MaxCalls
    /\ \E limit \in {1, HarnessChunks} :
         \E env \in QueryEnvs(InitialRange(StorePoints, DocumentId, limit), limit) :
            LET r == get_initial_chunks(Store, env)
            IN  /\ payload_indexes' = r.indexes
                /\ query_log' = Append(query_log, QueryRecord("scroll", {DocumentId}, limit, env, r))
    /\ UNCHANGED <<collection_exists, ensure_log, index_required, delete_log, db_row>>
    /\ UNCHANGED <<docVars, taskVars, envVars, serviceVars>>

DeleteDocumentCall ==
    /\ harness
    /\ AdapterCalls < MaxCalls
    /\ \E store_fails \in BOOLEAN, db_fails \in BOOLEAN :
          LET r == delete_document(Store, upserted, db_row, store_fails, db_fails)
          IN  /\ upserted' = r.upserted
              /\ db_row' = r.db_row
              /\ delete_log' = Append(delete_log,
                                      [store_failed |-> r.store_failed,
                                       db_called |-> r.db_called,
                                       db_fails |-> db_fails,
                                       raised |-> r.raised,
                                       row_after |-> r.db_row])
    /\ UNCHANGED <<semaphore, waiters, task, attempts, task_error, gather_exc,
                   gather_from, embed_calls, faults_left>>
    /\ UNCHANGED <<docVars, storeVars, envVars, index_required, query_log, serviceVars>>

(***************************************************************************)
(* Retrieval: one action per search of the loop, one for its return.       *)
(***************************************************************************)
NotRetrieving == <<docVars, storeVars, taskVars, envVars, adapterVars, streamVars,
                   chatVars>>

\* lines 209-217: chat_completion answered the expansion prompt
ExpansionReturns ==
    /\ r_pc = "expand"
    /\ \E response \in ExpansionResponses : queries' = extend(queries, response)
    /\ expansion' = "returned"
    /\ r_pc' = "search"
    /\ UNCHANGED <<min_per_query, num_chunks, q_idx, all_hits, seen_texts, hits_total,
                   content, search_log, r_exc, generation, mcq_outcome>>
    /\ UNCHANGED NotRetrieving

\* lines 216-219: chat_completion raised
ExpansionRaises ==
    /\ r_pc = "expand"
    /\ expansion' = "failed"
    /\ IF expansion_except(ErrTimeout) = "pass"
       THEN /\ r_pc' = "search"
            /\ r_exc' = r_exc
       ELSE /\ r_pc' = "done"
            /\ r_exc' = "chat_completion"
    /\ UNCHANGED <<min_per_query, queries, num_chunks, q_idx, all_hits, seen_texts,
                   hits_total, content, search_log, generation, mcq_outcome>>
    /\ UNCHANGED NotRetrieving

\* a store that answers every call of one search
QuietEnv == [fail1 |-> FALSE, fail2 |-> FALSE, ensure_fault |-> "none", answer |-> <<>>]

\* the hit texts one search of the loop may return: any hits of a collection
\* that exists, what search makes of the store's answer for one that does not
LoopSearchResults(limit) ==
    IF collection_exists THEN SearchResults(limit)
    ELSE LET r == search(Store, {}, QuietEnv)
         IN  IF r.raised THEN {}
             ELSE {[i \in 1..Len(r.returned) |-> r.returned[i].text]}

\* lines 228-241: the search of queries[q_idx] returned
SearchReturn ==
    /\ r_pc = "search"
    /\ q_idx <= Len(queries)
    /\ \E results \in LoopSearchResults(limit_per_query(min_per_query, num_chunks, queries)) :
          /\ all_hits' = keep_unseen(all_hits, results)
          /\ seen_texts' = seen_texts \cup {results[i] : i \in 1..Len(results)}
          /\ hits_total' = hits_total + Len(results)
          /\ search_log' = Append(search_log, results)
    /\ q_idx' = q_idx + 1
    /\ UNCHANGED <<r_pc, min_per_query, queries, num_chunks, content, expansion, r_exc,
                   generation, mcq_outcome>>
    /\ UNCHANGED <<docVars, storeVars, taskVars, envVars, adapterVars, streamVars, chatVars>>

\* lines 252-254: the embedding or the search of queries[q_idx] raised
SearchRaise ==
    /\ r_pc = "search"
    /\ q_idx <= Len(queries)
    /\ content' = retrieval_except(all_hits, num_chunks)
    /\ r_pc' = "done"
    /\ r_exc' \in {"generate_embedding", "search"}
    /\ UNCHANGED <<min_per_query, queries, num_chunks, q_idx, all_hits, seen_texts,
                   hits_total, search_log, expansion, generation, mcq_outcome>>
    /\ UNCHANGED <<docVars, storeVars, taskVars, envVars, adapterVars, streamVars, chatVars>>

\* lines 247-250: every query is searched
RetrievalReturn ==
    /\ r_pc = "search"
    /\ q_idx > Len(queries)
    /\ content' = join(final_chunks(all_hits, num_chunks))
    /\ r_pc' = "done"
    /\ UNCHANGED <<min_per_query, queries, num_chunks, q_idx, all_hits, seen_texts,
                   hits_total, search_log, expansion, r_exc, generation, mcq_outcome>>
    /\ UNCHANGED <<docVars, storeVars, taskVars, envVars, adapterVars, streamVars, chatVars>>

\* mcq_service.py lines 123-190: generate_mcq got the content, asks the model
\* for the questions, parses them, stores the test and returns it
GenerateMcq ==
    /\ r_pc = "done"
    /\ min_per_query = 3
    /\ IF mcq_without_content(content) = "raise"
       THEN /\ generation' = generation
            /\ mcq_outcome' = "no_content"
       ELSE /\ generation' = [called |-> TRUE, content |-> content]
            /\ mcq_outcome' \in {"test", "llm_raised", "parse_failed", "insert_failed"}
    /\ r_pc' = "mcq_done"
    /\ UNCHANGED <<min_per_query, queries, num_chunks, q_idx, all_hits, seen_texts,
                   hits_total, content, search_log, expansion, r_exc>>
    /\ UNCHANGED NotRetrieving

(***************************************************************************)
(* chat_stream.  get_answer_stream (G) is pulled by stream_and_save (W),   *)
(* which is pulled by the response; an action runs from one suspension of  *)
(* W to the next.  In "pull" W has handed a chunk to the client, or has    *)
(* not been started, and its next step pulls G.                            *)
(***************************************************************************)
UserTurn == [role |-> "user", content |-> <<"question">>, sources |-> <<>>]

AssistantTurn(answer, srcs) ==
    [role |-> "assistant", content |-> answer, sources |-> srcs]

\* what the documents table answers to the filename lookups of one context
NameLookups == {[d \in {} |-> ""], [d \in {"d2"} |-> "b.pdf"]}

NotStreaming == <<docVars, storeVars, taskVars, envVars, adapterVars, retrievalVars,
                  chatVars>>

\* chat.py lines 90-152: the user turn is saved and the history fetched
ChatStreamRequest ==
    /\ s_pc = "request"
    /\ \E outcome \in {"ok", "insert_fails", "select_fails"} :
          /\ chat_messages' = IF outcome = "insert_fails" THEN chat_messages
                              ELSE Append(chat_messages, UserTurn)
          /\ s_pc' = IF outcome = "ok" THEN "pull" ELSE "http500"
    /\ UNCHANGED <<upstream, gen_error, sources_data, chunk, full_answer, sources,
                   received, insert_attempts>>
    /\ UNCHANGED NotStreaming

\* rag_service.py lines 167-191 and chat.py lines 134-136: the chain yields c
UpstreamYields ==
    /\ s_pc = "pull"
    /\ Len(upstream) < MaxUpstream
    /\ \E c \in UpstreamChunks, names \in NameLookups :
          /\ upstream' = Append(upstream, c)
          /\ IF c.key = "answer"
             THEN /\ ~HasMarker(c.answer)
                  /\ chunk' = c.answer
                  /\ full_answer' = full_answer \o c.answer
                  /\ received' = Append(received, c.answer)
             ELSE UNCHANGED <<chunk, full_answer, received>>
          /\ sources_data' = IF c.key = "context"
                             THEN capture_context(sources_data, c.context, names)
                             ELSE sources_data
    /\ UNCHANGED <<s_pc, gen_error, sources, chat_messages, insert_attempts>>
    /\ UNCHANGED NotStreaming

\* rag_service.py line 195 and chat.py lines 122-125: the chain is exhausted,
\* G yields the sources chunk and W hands the text before the marker on
GenerationEnds ==
    /\ s_pc = "pull"
    /\ LET last == sources_chunk(sources_data)
       IN  /\ HasMarker(last)
           /\ chunk' = last
           /\ full_answer' = full_answer \o split_parts(last)[1]
           /\ received' = Append(received, split_parts(last)[1])
    /\ s_pc' = "forward"
    /\ UNCHANGED <<upstream, gen_error, sources_data, sources, chat_messages,
                   insert_attempts>>
    /\ UNCHANGED NotStreaming

\* chat.py lines 127-133: W parses the sources and hands the whole chunk on
ForwardMarker ==
    /\ s_pc = "forward"
    /\ LET parsed == json_loads(split_parts(chunk)[2])
       IN  sources' = IF parsed.ok THEN parsed.value ELSE sources
    /\ received' = Append(received, chunk)
    /\ s_pc' = "last"
    /\ UNCHANGED <<upstream, gen_error, sources_data, chunk, full_answer,
                   chat_messages, insert_attempts>>
    /\ UNCHANGED NotStreaming

\* rag_service.py lines 197-199: building the chain or the generation raises
GenerationRaises ==
    /\ s_pc = "pull"
    /\ \E e \in GenerationErrors :
          LET h == get_answer_stream_except(e)
          IN  /\ gen_error' = e
              /\ IF h.raised
                 THEN /\ s_pc' = "crashed"
                      /\ UNCHANGED <<chunk, full_answer, received>>
                 ELSE /\ ~HasMarker(h.chunk)
                      /\ chunk' = h.chunk
                      /\ full_answer' = full_answer \o h.chunk
                      /\ received' = Append(received, h.chunk)
                      /\ s_pc' = "last"
    /\ UNCHANGED <<upstream, sources_data, sources, chat_messages, insert_attempts>>
    /\ UNCHANGED NotStreaming

\* chat.py lines 138-147: G is exhausted and W saves the assistant turn
SaveAssistantTurn ==
    /\ s_pc = "last"
    /\ insert_attempts' = insert_attempts + 1
    /\ \E insert_fails \in BOOLEAN :
          chat_messages' = IF insert_fails THEN chat_messages
                           ELSE Append(chat_messages, AssistantTurn(full_answer, sources))
    /\ s_pc' = "done"
    /\ UNCHANGED <<upstream, gen_error, sources_data, chunk, full_answer, sources,
                   received>>
    /\ UNCHANGED NotStreaming

\* the client goes away while W is suspended at a yield: the response closes
\* W there, and W has no finally clause
Disconnect ==
    /\ s_pc \in {"pull", "forward", "last"}
    /\ s_pc' = "closed"
    /\ UNCHANGED <<upstream, gen_error, sources_data, chunk, full_answer, sources,
                   received, chat_messages, insert_attempts>>
    /\ UNCHANGED NotStreaming

(***************************************************************************)
(* chat_message.  chain.ainvoke retrieves and then generates; everything   *)
(* after its return runs without suspension.                               *)
(***************************************************************************)
NotChatting == <<docVars, storeVars, taskVars, envVars, adapterVars, retrievalVars>>

\* the answers the language model may give
\* the turns of a second chat request for the same project
OtherUserTurn == [role |-> "user", content |-> <<"other question">>, sources |-> <<>>]

OtherAssistantTurn ==
    [role |-> "assistant", content |-> <<"other answer">>, sources |-> <<>>]

history_whole(fetched) == fetched

\* chat.py lines 66 and 119: chat_history_dicts[:-1]
history_slice(fetched) == SubSeq(fetched, 1, Len(fetched) - 1)

\* chat.py lines 51-55: the project's rows ordered by created_at
select_history(rows) == rows

\* a second request inserts its user turn (chat.py lines 44-48, with its own
\* select in the same stretch) and later its assistant turn (lines 69-74);
\* the first request is suspended in get_answer or has not started
OtherRequestTurn ==
    /\ c_pc \in {"request", "retrieve", "generate"}
    /\ other_left > 0
    /\ chat_messages' = Append(chat_messages,
                               IF other_left = OtherTurns THEN OtherUserTurn
                               ELSE OtherAssistantTurn)
    /\ other_left' = other_left - 1
    /\ UNCHANGED <<c_pc, selected_documents, response_context, result, chat_history>>
    /\ UNCHANGED <<s_pc, upstream, gen_error, sources_data, chunk, full_answer,
                   sources, received, insert_attempts>>
    /\ UNCHANGED <<docVars, storeVars, taskVars, envVars, adapterVars, retrievalVars>>

GeneratedAnswers == {<<"a">>, <<"a", "b">>, <<>>}

\* chat.py lines 44-66: the user turn is saved, the history fetched and cut,
\* with no suspension between the insert and the select
ChatMessageRequest ==
    /\ c_pc = "request"
    /\ \E outcome \in {"ok", "insert_fails", "select_fails"} :
          /\ chat_messages' = IF outcome = "insert_fails" THEN chat_messages
                              ELSE Append(chat_messages, UserTurn)
          /\ c_pc' = IF outcome = "ok" THEN "retrieve" ELSE "http500"
          /\ result' = IF outcome = "ok" THEN result ELSE Http500(ErrRefused)
          /\ chat_history' = IF outcome = "ok"
                             THEN history_slice(select_history(chat_messages'))
                             ELSE chat_history
    /\ UNCHANGED <<selected_documents, response_context, other_left>>
    /\ UNCHANGED <<s_pc, upstream, gen_error, sources_data, chunk, full_answer,
                   sources, received, insert_attempts>>
    /\ UNCHANGED NotChatting

\* rag_service.py lines 90-104: the chain is built and its retriever returns
\* the best k chunks the filter accepts
ChainRetrieves ==
    /\ c_pc = "retrieve"
    /\ \E docs \in Answers(retrievable(RetrievedDocs, selected_documents), retriever_k) :
          response_context' = docs
    /\ c_pc' = "generate"
    /\ UNCHANGED <<selected_documents, result, chat_history, other_left>>
    /\ UNCHANGED streamVars
    /\ UNCHANGED NotChatting

\* rag_service.py lines 101-133 and chat.py lines 69-78: the model answered,
\* the sources are built, the assistant turn is saved and the result returned
GetAnswerReturns ==
    /\ c_pc = "generate"
    /\ \E answer \in GeneratedAnswers, names \in NameLookups, insert_fails \in BOOLEAN :
          LET srcs == get_answer_sources(response_context, names)
          IN  /\ chat_messages' = IF insert_fails THEN chat_messages
                                  ELSE Append(chat_messages, AssistantTurn(answer, srcs))
              /\ result' = IF insert_fails THEN Http500(ErrRefused)
                           ELSE Ok200(answer, srcs)
              /\ c_pc' = IF insert_fails THEN "http500" ELSE "returned"
    /\ UNCHANGED <<selected_documents, response_context, chat_history, other_left>>
    /\ UNCHANGED <<s_pc, upstream, gen_error, sources_data, chunk, full_answer,
                   sources, received, insert_attempts>>
    /\ UNCHANGED NotChatting

\* rag_service.py lines 135-137 and chat.py lines 79-80: the retrieval or the
\* generation raised e
GetAnswerRaises ==
    /\ c_pc \in {"retrieve", "generate"}
    /\ \E e \in GenerationErrors, insert_fails \in BOOLEAN :
          LET h == get_answer_except(e)
          IN  /\ gen_error' = e
              /\ chat_messages' = IF h.raised \/ insert_fails THEN chat_messages
                                  ELSE Append(chat_messages,
                                              AssistantTurn(h.answer, <<>>))
              /\ result' = IF h.raised THEN Http500(e)
                           ELSE IF insert_fails THEN Http500(ErrRefused)
                           ELSE Ok200(h.answer, <<>>)
              /\ c_pc' = IF h.raised \/ insert_fails THEN "http500" ELSE "returned"
    /\ UNCHANGED <<selected_documents, response_context, chat_history, other_left>>
    /\ UNCHANGED <<s_pc, upstream, sources_data, chunk, full_answer, sources,
                   received, insert_attempts>>
    /\ UNCHANGED NotChatting

TaskStep ==
    \E b \in DOMAIN task :
        AttemptSucceeds(b) \/ EmbedFails(b) \/ UpsertFails(b) \/ Wake(b)

Next ==
    \/ Begin
    \/ ExtractReturn
    \/ ChunkReturn
    \/ EnsureCollection
    \/ Dispatch
    \/ TaskStep
    \/ Admit
    \/ GatherReturn
    \/ GatherRaise
    \/ TopicsReturn

NextAdapter ==
    \/ CreateCollectionCall
    \/ SearchCall
    \/ GetInitialChunksCall
    \/ DeleteDocumentCall

Spec == Init /\ [][Next]_vars

SpecWide == InitWide /\ [][Next]_vars

\* the event loop runs a task that is ready: an admitted batch, a batch whose
\* sleep is over, the longest waiter when a slot is free; every embed and
\* upsert call returns or raises
FairSpecWide == SpecWide /\ WF_vars(Next)

SpecOutage == InitOutage /\ [][Next]_vars

\* the event loop runs a task that is ready, and every external call returns
\* or raises
FairSpecOutage == SpecOutage /\ WF_vars(Next)

NextRetrieval ==
    \/ ExpansionReturns
    \/ ExpansionRaises
    \/ GenerateMcq
    \/ SearchReturn
    \/ SearchRaise
    \/ RetrievalReturn

SpecAdapter == InitAdapter /\ [][NextAdapter]_vars

NextStream ==
    \/ ChatStreamRequest
    \/ UpstreamYields
    \/ GenerationEnds
    \/ ForwardMarker
    \/ GenerationRaises
    \/ SaveAssistantTurn
    \/ Disconnect

SpecRetrieval == InitRetrieval /\ [][NextRetrieval]_vars

SpecStream == InitStream /\ [][NextStream]_vars

NextChat ==
    \/ ChatMessageRequest
    \/ ChainRetrieves
    \/ GetAnswerReturns
    \/ GetAnswerRaises

SpecChat == InitChat /\ [][NextChat]_vars

\* two chat requests of one project on the one event loop
NextChatPair ==
    \/ OtherRequestTurn
    \/ NextChat

SpecChatPair == InitChatPair /\ [][NextChatPair]_vars

(***************************************************************************)
(* Properties.                                                             *)
(***************************************************************************)
RateLimitText(e) == Contains(e, Pat429) \/ Contains(e, PatTooMany)

Failed(a) == a.error # NoError

\* the chunk index a point was written for: position k of batch call[1]
OriginalIndex(p) == p.id[1][1] * batch_size + (p.id[2] - 1)

\* C1: the batches between acquiring and releasing the semaphore (embedding,
\* upserting or in a backoff sleep) are never more than 10, and the semaphore
\* value accounts for each of them.
C1_AdmissionBound ==
    /\ Cardinality(InSlot) <= SemaphoreSlots
    /\ task # EmptyFn => semaphore + Cardinality(InSlot) = SemaphoreSlots

\* ten batches hold a slot, one of them asleep in a backoff, and a batch waits
C1_Witness ==
    /\ Cardinality(InSlot) = SemaphoreSlots
    /\ waiters # <<>>
    /\ \E b \in DOMAIN task : task[b].st = "sleeping"

\* C2: every point written for the chunk originally at index i carries
\* chunk_id = i and that chunk's text, whatever the batches' order.
C2_ChunkIdIsIndex ==
    \A p \in points :
        /\ OriginalIndex(p) \in 0..(Len(chunks) - 1)
        /\ p.chunk_id = OriginalIndex(p)
        /\ p.text = chunks[OriginalIndex(p) + 1]

\* the second batch was written, after a retry, while the first is unfinished
C2_Witness ==
    /\ \E p \in points : p.chunk_id >= batch_size /\ p.id[1][2] > 0
    /\ task[0].st # "done"

\* C3: the status moves pending -> processing -> {completed, failed} only;
\* once completed or failed is written no later step writes another status.
C3_StatusMonotonic ==
    [][ \/ status' = status
        \/ status = "pending" /\ status' = "processing"
        \/ status = "processing" /\ status' \in {"completed", "failed"} ]_vars

\* failed was written by the outer handler while a sibling batch still holds
\* its slot and goes on
C3_Witness ==
    /\ status = "failed"
    /\ pc = "done"
    /\ exc_origin = "process_batch"
    /\ \E b \in DOMAIN task : task[b].st \in {"embedding", "sleeping"}

\* C4: completed is written only when each of the ceil(N/25) batches has
\* returned after a successful upsert of all its chunks; a document with a
\* batch that raised is not completed.
C4_CompletedOnlyAfterAllBatches ==
    status = "completed" =>
        /\ DOMAIN task = 0..((Len(chunks) + batch_size - 1) \div batch_size - 1)
        /\ \A b \in DOMAIN task :
              /\ task[b].st = "done"
              /\ \E a \in 0..(retries - 1) : <<b, a>> \in upserted
        /\ {p.chunk_id : p \in points} = 0..(Len(chunks) - 1)

\* completed after a batch needed more than one attempt
C4_Witness ==
    /\ status = "completed"
    /\ Len(chunks) > batch_size
    /\ \E b \in DOMAIN task : Len(attempts[b]) > 1

\* C5 as stated: failed is written only for an extraction without text, a
\* chunking without chunks, or a batch that failed after its retries.
C5_FailedOnlyFromThreeCauses ==
    status = "failed" =>
        \/ failed_by = "extract"
        \/ failed_by = "chunk"
        \/ failed_by = "exception" /\ exc_origin = "process_batch"

\* C5 amended: failed is written only for an extraction without text, a
\* chunking without chunks, or an exception caught by the outer handler, which
\* comes from a batch that failed after its retries, from create_collection
\* or from the chunker.
C5_FailedCauses ==
    status = "failed" =>
        \/ failed_by = "extract" /\ ~Truthy(text) /\ message = MsgExtractFailed
        \/ failed_by = "chunk" /\ Len(chunks) = 0 /\ message = MsgNoChunks
        \/ /\ failed_by = "exception"
           /\ exc_origin = "process_batch"
           /\ task[gather_from].st = "raised"
           /\ Len(attempts[gather_from]) = retries
        \/ /\ failed_by = "exception"
           /\ exc_origin = "create_collection"
           /\ ensure_log[Len(ensure_log)].raised
           /\ task = EmptyFn
        \/ /\ failed_by = "exception"
           /\ exc_origin = "chunk_text"
           /\ ensure_log = <<>>

\* create_collection raised and the document is failed with no batch dispatched
C5_Witness ==
    /\ status = "failed"
    /\ exc_origin = "create_collection"
    /\ task = EmptyFn

\* C6: when extraction yields None or "", the run ends failed with message
\* "Failed to extract text"; no create_collection call, no embedding request
\* and no upsert happen.
C6_ExtractionFailure ==
    (pc \notin {"new", "extract"} /\ (text = None \/ text = <<>>)) =>
        /\ pc = "done"
        /\ status = "failed"
        /\ message = MsgExtractFailed
        /\ ensure_log = <<>>
        /\ embed_calls = 0
        /\ task = EmptyFn
        /\ upserted = {}
        /\ points = {}

\* extraction returned the empty string and the run is over
C6_Witness ==
    /\ pc = "done"
    /\ text = <<>>
    /\ status = "failed"

\* the batches whose first two attempts failed with a rate-limit error and
\* whose third attempt succeeded
RecoveredOnThird(b) ==
    /\ Len(attempts[b]) = 3
    /\ Failed(attempts[b][1]) /\ RateLimitText(attempts[b][1].error)
    /\ Failed(attempts[b][2]) /\ RateLimitText(attempts[b][2].error)
    /\ ~Failed(attempts[b][3])

ExpectedBackoffs(b) == <<10 * 1 + (b % 5), 10 * 2 + (b % 5)>>

\* C7 as stated: such a batch ends successfully with exactly one upsert call
\* and two backoffs of 2^0 + 0.1*(idx mod 5) and 2^1 + 0.1*(idx mod 5) seconds.
C7_OneUpsertCall ==
    \A b \in DOMAIN task :
        RecoveredOnThird(b) =>
            /\ task[b].st = "done"
            /\ upsert_calls(b) = 1
            /\ backoffs(b) = ExpectedBackoffs(b)

\* C7 amended: such a batch ends successfully with exactly one successful
\* upsert call, and one failed upsert call more for every attempt whose
\* rate-limit error was raised by the upsert; its two backoffs are
\* 2^0 + 0.1*(idx mod 5) and 2^1 + 0.1*(idx mod 5) seconds, the second longer.
C7_OneSuccessfulUpsert ==
    \A b \in DOMAIN task :
        RecoveredOnThird(b) =>
            /\ task[b].st = "done"
            /\ {a \in 0..(retries - 1) : <<b, a>> \in upserted} = {2}
            /\ Cardinality({p \in points : p.id[1][1] = b})
                   = Len(batches(chunks)[b].batch_data)
            /\ upsert_calls(b)
                   = 1 + Cardinality({i \in 1..2 : attempts[b][i].upsert})
            /\ backoffs(b) = ExpectedBackoffs(b)
            /\ backoffs(b)[2] > backoffs(b)[1]

\* a batch recovered on its third attempt after rate-limit errors of embedding
C7_Witness ==
    \E b \in DOMAIN task :
        /\ RecoveredOnThird(b)
        /\ b % 5 = 1
        /\ ~attempts[b][1].upsert
        /\ ~attempts[b][2].upsert

\* C8 as stated: an attempt that fails with another error than a rate limit is
\* the batch's last: the error is raised from process_batch on that attempt.
C8_OtherErrorRaisedAtOnce ==
    \A b \in DOMAIN task :
        \A i \in 1..Len(attempts[b]) :
            (Failed(attempts[b][i]) /\ ~RateLimitText(attempts[b][i].error)) =>
                /\ i = Len(attempts[b])
                /\ task[b].st = "raised"
                /\ task_error[b] = attempts[b][i].error

\* C8 amended: an attempt that fails with another error than a rate limit is
\* followed by no backoff; on the first and second attempt the batch goes on
\* with the next attempt at once, and only on the third attempt is the error
\* raised from process_batch.
C8_OtherErrorNoBackoff ==
    \A b \in DOMAIN task :
        \A i \in 1..Len(attempts[b]) :
            (Failed(attempts[b][i]) /\ ~RateLimitText(attempts[b][i].error)) =>
                /\ attempts[b][i].slept = 0
                /\ i < retries =>
                      /\ task_error[b] # attempts[b][i].error \/ Len(attempts[b]) = retries
                      /\ i = Len(attempts[b]) => task[b] = [st |-> "embedding", attempt |-> i]
                /\ i = retries =>
                      /\ task[b].st = "raised"
                      /\ task_error[b] = attempts[b][i].error

\* a first attempt failed with another error and the batch is in its second
C8_Witness ==
    \E b \in DOMAIN task :
        /\ Len(attempts[b]) = 1
        /\ attempts[b][1].error = ErrTimeout
        /\ task[b] = [st |-> "embedding", attempt |-> 1]

\* every recorded attempt of batch b failed with a rate-limit error
AllRateLimited(b) ==
    /\ Len(attempts[b]) > 0
    /\ \A i \in 1..Len(attempts[b]) :
          Failed(attempts[b][i]) /\ RateLimitText(attempts[b][i].error)

RateLimitedBatch(b) ==
    IF Len(attempts[b]) < retries
    THEN /\ task[b].st \in {"sleeping", "embedding"}
         /\ Len(backoffs(b)) = Len(attempts[b])
    ELSE /\ Len(attempts[b]) = retries
         /\ Len(backoffs(b)) = retries - 1
         /\ attempts[b][retries].slept = 0
         /\ task[b].st = "raised"
         /\ task_error[b] = attempts[b][retries].error
         /\ status # "completed"

\* C9 as stated: a batch whose every attempt fails with a rate-limit error makes
\* 3 attempts with 2 backoffs and raises; the document ends failed with that
\* error's text as message and is never completed.
C9_MessageIsBatchError ==
    \A b \in DOMAIN task :
        AllRateLimited(b) =>
            /\ RateLimitedBatch(b)
            /\ (Len(attempts[b]) = retries /\ pc = "done") =>
                  /\ status = "failed"
                  /\ message = task_error[b]

\* C9 amended: such a batch makes 3 attempts with 2 backoffs and raises; the
\* document ends failed and is never completed, and its message is the text
\* of the error of the batch that raised first: this batch's own error when no
\* other batch raised before it.
C9_MessageIsFirstError ==
    \A b \in DOMAIN task :
        AllRateLimited(b) =>
            /\ RateLimitedBatch(b)
            /\ (Len(attempts[b]) = retries /\ pc = "done") =>
                  /\ status = "failed"
                  /\ message = task_error[gather_from]
                  /\ gather_from = b => message = attempts[b][retries].error

\* the document is failed with the error of a batch that exhausted its attempts
C9_Witness ==
    \E b \in DOMAIN task :
        /\ AllRateLimited(b)
        /\ Len(attempts[b]) = retries
        /\ pc = "done"
        /\ gather_from = b
        /\ message = ErrTooMany

\* C10: two create_collection calls in sequence for a name the store does not
\* hold, with the store answering every request: neither raises, only the
\* first requests the creation, and afterwards the collection exists with the
\* document_id and the chunk_id index.
C10_CreateTwice ==
    (/\ Len(ensure_log) >= 2
     /\ ensure_log[1].fault = "none"
     /\ ensure_log[2].fault = "none"
     /\ ensure_log[1].requested) =>
        /\ ~ensure_log[1].raised
        /\ ~ensure_log[2].raised
        /\ ~ensure_log[2].requested
        /\ collection_exists
        /\ payload_indexes = AllIndexes

\* the second call returned on a store that refuses to create an existing index
C10_Witness ==
    /\ Len(ensure_log) = 2
    /\ ensure_log[1].fault = "none"
    /\ ensure_log[2].fault = "none"
    /\ ensure_log[1].requested
    /\ strict_index

\* C11: after a create_collection call returns for a collection the store
\* already holds, with the store answering every request, the document_id
\* and the chunk_id index both exist, whatever indexes were there before and
\* whether or not the store answers "already exists" for an existing index.
C11_BothIndexesAfterReturn ==
    \A k \in 1..Len(ensure_log) :
        (/\ k = Len(ensure_log)
         /\ ensure_log[k].fault = "none"
         /\ ~ensure_log[k].raised
         /\ ~ensure_log[k].requested) =>
            payload_indexes = AllIndexes

\* the first query of a search was refused for a missing index
IndexMissing(q) == Contains(q.first_err, PatIndexRequired)

\* C12: every search makes at most two query calls.  When the first query
\* fails with "Index required" the indexes are ensured and the query is made
\* exactly once more: the hits of the second query are returned when it
\* succeeds and its error is raised when it fails.  After any other error of
\* the first query, and after a first query that succeeds, there is no
\* second query.
C12_SearchRetriesOnce ==
    \A k \in 1..Len(query_log) :
        LET q == query_log[k]
        IN  q.op = "search" =>
              /\ q.calls \in {1, 2}
              /\ IF q.first_err # NoError /\ IndexMissing(q)
                 THEN /\ q.calls = 2
                      /\ q.ensured
                      /\ q.retry_err = NoError =>
                            ~q.raised /\ q.returned = Hits(q.answer)
                      /\ q.retry_err # NoError => q.raised /\ q.err = q.retry_err
                 ELSE /\ q.calls = 1
                      /\ ~q.ensured

\* a search whose first query lacked the index and whose second query
\* returned every point of the collection
C12_Witness ==
    \E k \in 1..Len(query_log) :
        /\ query_log[k].op = "search"
        /\ IndexMissing(query_log[k])
        /\ query_log[k].retry_err = NoError
        /\ Len(query_log[k].returned) = HarnessChunks

\* C13: a search or a get_initial_chunks call for a collection the store does
\* not hold, answered by the store, returns the empty list and does not
\* raise; get_initial_chunks does so whatever the store does.
C13_MissingCollectionIsEmpty ==
    \A k \in 1..Len(query_log) :
        LET q == query_log[k]
        IN  (~q.exists /\ (q.op = "scroll" \/ ~q.fail1)) =>
                ~q.raised /\ q.returned = <<>>

\* a search of a collection the store does not hold got the store's answer
C13_Witness ==
    \E k \in 1..Len(query_log) :
        /\ query_log[k].op = "search"
        /\ ~query_log[k].exists
        /\ query_log[k].first_err = ErrNotFound

\* C14: delete_document never sees an exception of the vector store: when the
\* store's delete fails and the database accepts the delete, the record is
\* deleted and delete_document returns.
C14_DeleteSurvivesStoreFailure ==
    \A k \in 1..Len(delete_log) :
        LET d == delete_log[k]
        IN  /\ d.db_called
            /\ (d.store_failed /\ ~d.db_fails) => ~d.raised /\ ~d.row_after

\* the store refused the delete and the record is gone
C14_Witness ==
    \E k \in 1..Len(delete_log) :
        /\ delete_log[k].store_failed
        /\ ~delete_log[k].raised
        /\ ~db_row

\* the chunks of a joined context
Parts(c) == SelectSeq(c, LAMBDA x : x # Sep)

\* C15: the context a retrieval returns holds every hit text at most once,
\* holds only texts the searches returned, and has at most num_chunks chunks.
C15_ContextDistinctWithinBudget ==
    r_pc = "done" =>
        LET parts == Parts(content)
        IN  /\ Len(parts) <= num_chunks
            /\ \A i, j \in 1..Len(parts) : parts[i] = parts[j] => i = j
            /\ \A i \in 1..Len(parts) : parts[i] \in seen_texts

\* more queries times allowance than budget, hits with a repeated text, more
\* distinct texts than budget, and a context that fills the budget
C15_Witness ==
    /\ r_pc = "done"
    /\ Len(queries) * limit_per_query(min_per_query, num_chunks, queries) > num_chunks
    /\ hits_total > Cardinality(seen_texts)
    /\ Cardinality(seen_texts) > num_chunks
    /\ Len(Parts(content)) = num_chunks
    /\ num_chunks > 1

(***************************************************************************)
(* Streamed chat: what the client has and what the chain gave.             *)
(***************************************************************************)
StreamText == Flat(received)

MarkerAt == {i \in 1..Len(StreamText) : StreamText[i] = Marker}

\* the stream up to its first marker, the whole stream if it has none
BeforeMarker ==
    IF MarkerAt = {} THEN StreamText
    ELSE SubSeq(StreamText, 1, (CHOOSE i \in MarkerAt : \A j \in MarkerAt : i <= j) - 1)

\* the stream after its first marker
AfterMarker ==
    SubSeq(StreamText, (CHOOSE i \in MarkerAt : \A j \in MarkerAt : i <= j) + 1,
           Len(StreamText))

\* the answer deltas and the retrieved documents the chain yielded, in order
AnswerDeltas == Flat([i \in 1..Len(upstream) |-> upstream[i].answer])
ContextDocs == Flat([i \in 1..Len(upstream) |-> upstream[i].context])

AssistantRows == SelectSeq(chat_messages, LAMBDA m : m.role = "assistant")

\* C16: a stream the endpoint has delivered in full is answer text, then the
\* marker exactly once, then one well-formed JSON array and nothing more,
\* whether the generation ended or raised.
C16_StreamEndsWithSources ==
    s_pc = "done" =>
        /\ Cardinality(MarkerAt) = 1
        /\ json_loads(AfterMarker).ok

\* C17: for a stream delivered in full whose assistant turn was saved, the
\* text the client received before the marker is the saved content.
C17_ReceivedIsPersistedContent ==
    (s_pc = "done" /\ AssistantRows # <<>>) =>
        BeforeMarker = AssistantRows[Len(AssistantRows)].content

\* C18: the JSON array after the marker has as many entries as there are
\* distinct documents among the retrieved chunks.
C18_OneSourcePerDocument ==
    (s_pc = "done" /\ MarkerAt # {}) =>
        /\ json_loads(AfterMarker).ok
        /\ Len(json_loads(AfterMarker).value)
             = Cardinality({ContextDocs[i].document_id : i \in 1..Len(ContextDocs)})

\* C18, as the code has it: the JSON array after the marker has one entry for
\* every retrieved chunk of every context the chain yielded, in order, so a
\* document with several chunks, or a context yielded again, is listed again.
C18_OneSourcePerChunk ==
    (s_pc = "done" /\ MarkerAt # {}) =>
        LET array == json_loads(AfterMarker)
        IN  /\ array.ok
            /\ Len(array.value) = Len(ContextDocs)
            /\ \A i \in 1..Len(ContextDocs) :
                  /\ array.value[i].doc_id = ContextDocs[i].document_id
                  /\ array.value[i].chunk_text = ContextDocs[i].page_content \o "..."

\* a stream delivered in full whose context came in two chunks and held two
\* chunks of one document
C18_Witness ==
    /\ s_pc = "done"
    /\ MarkerAt # {}
    /\ Cardinality({i \in 1..Len(upstream) : upstream[i].key = "context"}) = 2
    /\ \E i, j \in 1..Len(ContextDocs) :
          /\ i # j
          /\ ContextDocs[i].document_id = ContextDocs[j].document_id
          /\ ContextDocs[i].page_content # ContextDocs[j].page_content

\* C19: when the generation has ended or raised, stream_and_save makes one
\* insert of an assistant turn; the turn holds the deltas the chain yielded
\* followed by the text of the last chunk (the error text when the generation
\* raised) and the sources captured (none when the generation raised), and
\* the exception does not reach the response.
C19_OneTurnWithTextAndSources ==
    /\ s_pc # "crashed"
    /\ s_pc = "done" =>
          /\ insert_attempts = 1
          /\ Len(AssistantRows) <= 1
          /\ \A i \in 1..Len(AssistantRows) :
                AssistantRows[i] =
                    IF gen_error = NoError
                    THEN [role |-> "assistant",
                          content |-> AnswerDeltas \o <<"\n\n">>,
                          sources |-> sources_data]
                    ELSE [role |-> "assistant",
                          content |-> AnswerDeltas \o <<"Error: ">> \o gen_error,
                          sources |-> <<>>]

\* the generation raised after a delta and a context, and the turn is saved
C19_Witness ==
    /\ s_pc = "done"
    /\ gen_error # NoError
    /\ AnswerDeltas # <<>>
    /\ ContextDocs # <<>>
    /\ Len(AssistantRows) = 1

\* C20: when the client has gone away after it received a delta, an insert
\* of the assistant turn has been attempted.
C20_DisconnectStillPersists ==
    (s_pc = "closed" /\ AnswerDeltas # <<>>) => insert_attempts >= 1

(***************************************************************************)
(* Empty chunk set, order of the collection and the batches, and what a    *)
(* failed run leaves in the index.                                         *)
(***************************************************************************)
\* the chunker returned the empty list for an extracted text
EmptyChunkSet ==
    /\ Truthy(text)
    /\ Len(chunks) = 0
    /\ exc_origin # "chunk_text"
    /\ pc \notin {"new", "extract", "chunk"}

\* C26: when chunk_text returns the empty list the run ends with status
\* failed and message "No chunks generated", and it has made no
\* create_collection call and started no batch (no task, no embed call, no
\* upsert).
C26_NoChunksGenerated ==
    EmptyChunkSet =>
        /\ pc = "done"
        /\ status = "failed"
        /\ message = MsgNoChunks
        /\ ensure_log = <<>>
        /\ task = EmptyFn
        /\ embed_calls = 0
        /\ upserted = {}

C26_Witness ==
    /\ EmptyChunkSet
    /\ pc = "done"
    /\ ~collection_exists

\* a batch has started: its task exists, or an embed or upsert call was made
BatchStarted ==
    \/ task # EmptyFn
    \/ embed_calls > 0
    \/ upserted # {}

\* C27: whenever a batch has started, the one create_collection call of the
\* run has returned without raising and the collection exists, whether the
\* call found the collection or created it.
C27_CollectionBeforeBatches ==
    BatchStarted =>
        /\ Len(ensure_log) = 1
        /\ ~ensure_log[1].raised
        /\ collection_exists

C27_Witness ==
    /\ upserted # {}
    /\ Len(ensure_log) = 1
    /\ ensure_log[1].requested

\* the upsert_chunks calls that returned: <<batch_idx, attempt>>
ReturnedUpserts ==
    {call \in UNION {{<<b, i - 1>> : i \in 1..Len(attempts[b])} : b \in DOMAIN attempts} :
        LET a == attempts[call[1]][call[2] + 1]
        IN  a.upsert /\ a.error = NoError}

\* the run ended in failed because a batch raised
FailedByBatch ==
    /\ status = "failed"
    /\ exc_origin = "process_batch"

\* C28: once the run has ended in failed because of a batch, the points of
\* every upsert_chunks call that returned, before or after the failure, are
\* in the collection; no step of the run removes a point.
C28_NoRollback ==
    FailedByBatch => ReturnedUpserts \subseteq upserted

C28_Witness ==
    /\ FailedByBatch
    /\ upserted # {}
    /\ pc = "done"

\* C22: process_document never raises: a run that failed in extraction, in
\* chunking, in create_collection or in a batch has returned to its caller
\* (the background task runner, after upload_document answered with the
\* pending record) and has left status failed in the document's row.
C22_NeverRaises ==
    /\ pc # "raised"
    /\ failed_by # "none" => pc = "done" /\ status = "failed"

C22_Witness ==
    /\ pc = "done"
    /\ status = "failed"
    /\ exc_origin = "create_collection"

(***************************************************************************)
(* The document filter of search and of the retrieval chain.               *)
(***************************************************************************)
\* searches with a selection that the store answered
SelectiveSearches ==
    {i \in 1..Len(query_log) :
        /\ query_log[i].op = "search"
        /\ query_log[i].document_ids # {}
        /\ query_log[i].accepted}

\* C24: a search with a non-empty selection returns only points whose
\* document_id is selected, and every stored point of a selected document is
\* eligible: the search returns min(limit, number of such points) of them.
C24_FilterIsOr ==
    \A i \in SelectiveSearches :
        LET q == query_log[i]
            wanted == {p \in q.stored : p.document_id \in q.document_ids}
        IN  /\ {q.returned[k].id : k \in 1..Len(q.returned)} \subseteq {p.id : p \in wanted}
            /\ Len(q.returned) = Min(q.limit, Cardinality(wanted))

C24_Witness ==
    \E i \in SelectiveSearches :
        LET q == query_log[i]
        IN  /\ Cardinality(q.document_ids) = 2
            /\ {q.returned[k].document_id : k \in 1..Len(q.returned)} = q.document_ids
            /\ \E p \in q.stored : p.id \notin {q.returned[k].id : k \in 1..Len(q.returned)}

\* C25: in the chat answer paths, when two or more documents are selected
\* the retriever of the chain returns the chunks of every selected document
\* (the collection holds fewer than k chunks, so each eligible one is
\* returned).
C25_ChainFilterIsOr ==
    (c_pc = "generate" /\ Cardinality(selected_documents) >= 2) =>
        {response_context[i] : i \in 1..Len(response_context)}
            = {p \in RetrievedDocs : p.document_id \in selected_documents}

(***************************************************************************)
(* Blocking chat: the order of the turns.                                  *)
(***************************************************************************)
\* the rows this request has added to chat_messages
NewRows ==
    LET prior == IF Len(chat_messages) >= Len(PriorExchange)
                    /\ SubSeq(chat_messages, 1, Len(PriorExchange)) = PriorExchange
                 THEN Len(PriorExchange) ELSE 0
    IN  SubSeq(chat_messages, prior + 1, Len(chat_messages))

\* C21: in chat_message the user turn is in the table before retrieval and
\* generation start; an assistant turn is in the table only after the
\* generation returned, and it holds the answer and the sources of the
\* response; when retrieval or generation raised, the table holds no
\* assistant turn of this request and the caller got the error as HTTP 500.
C21_TurnsAroundGeneration ==
    /\ c_pc \in {"retrieve", "generate", "returned"} =>
          Len(NewRows) >= 1 /\ NewRows[1] = UserTurn
    /\ (\E i \in 1..Len(NewRows) : NewRows[i].role = "assistant") =>
          /\ c_pc = "returned"
          /\ gen_error = NoError
          /\ result.status = 200
          /\ NewRows = <<UserTurn, AssistantTurn(result.answer, result.sources)>>
          /\ Len(result.sources) = Len(response_context)
    /\ gen_error # NoError =>
          /\ c_pc = "http500"
          /\ result.status = 500
          /\ result.detail = gen_error
          /\ NewRows = <<UserTurn>>

C21_Witness ==
    /\ c_pc = "http500"
    /\ gen_error \in GenerationErrors
    /\ response_context # <<>>
    /\ Len(chat_messages) = Len(PriorExchange) + 1

(***************************************************************************)
(* The merge of the retrieval against its reference.                       *)
(***************************************************************************)
\* the positions of s that hold the first occurrence of their text
FirstPositions(s) == {i \in 1..Len(s) : \A j \in 1..(i - 1) : s[j] # s[i]}

\* s without the repetitions of a text, in the order of s
FirstOccurrences(s) ==
    LET pos == FirstPositions(s)
    IN  [k \in 1..Cardinality(pos) |->
            s[CHOOSE i \in pos : Cardinality({j \in pos : j < i}) = k - 1]]

\* C29: the texts joined into the context a retrieval returns are the
\* reference merge of the per-query search results: the results concatenated
\* in query order, each text kept at its first occurrence, cut to the first
\* num_chunks texts; the context is a function of these results.
C29_MergeIsReference ==
    (r_pc = "done" /\ Len(search_log) = Len(queries)) =>
        LET merged == FirstOccurrences(Flat(search_log))
        IN  Parts(content) = SubSeq(merged, 1, Min(num_chunks, Len(merged)))

\* two queries returned the same text, a later query returned a new text
\* before a repeated one, and the merge was cut
C29_Witness ==
    /\ r_pc = "done"
    /\ Len(search_log) = Len(queries)
    /\ Len(queries) >= 2
    /\ \E t \in Texts : \A k \in 1..2 :
          \E i \in 1..Len(search_log[k]) : search_log[k][i] = t
    /\ Len(FirstOccurrences(Flat(search_log))) > num_chunks
    /\ Len(Parts(content)) = num_chunks
    /\ num_chunks > 1

(***************************************************************************)
(* Retrieval when the expansion fails and when the collection is missing.  *)
(***************************************************************************)
\* the retrieval has returned to its caller
RetrievalReturned == r_pc \in {"done", "mcq_done"}

\* C30: when the chat_completion call of the query expansion raises, the
\* retrieval goes on: the query list is the seed alone, the exception does
\* not reach the handler of the retrieval, and a retrieval whose one search
\* succeeds returns the hits of exactly that search.
C30_ExpansionFailureKeepsSeed ==
    expansion = "failed" =>
        /\ queries = <<Seed>>
        /\ r_pc # "expand"
        /\ r_exc # "chat_completion"
        /\ (RetrievalReturned /\ r_exc = "none") =>
              /\ Len(search_log) = 1
              /\ hits_total = Len(search_log[1])
              /\ seen_texts = {search_log[1][i] : i \in 1..Len(search_log[1])}

C30_Witness ==
    /\ expansion = "failed"
    /\ r_pc = "done"
    /\ r_exc = "none"
    /\ Len(Parts(content)) > 1

\* C23: for a project whose collection has not been created the retrieval
\* returns the empty context, and generate_mcq then calls the model with
\* that empty content and ends as the model, the parsing and the insert
\* decide, never because the content is empty.
C23_MissingCollectionStillGenerates ==
    ~collection_exists =>
        /\ RetrievalReturned => content = <<>>
        /\ r_pc = "mcq_done" =>
              /\ generation.called
              /\ generation.content = <<>>
              /\ mcq_outcome \in {"test", "llm_raised", "parse_failed", "insert_failed"}

C23_Witness ==
    /\ ~collection_exists
    /\ r_pc = "mcq_done"
    /\ mcq_outcome = "test"
    /\ r_exc = "none"
    /\ Len(queries) > 1
    /\ Len(search_log) = Len(queries)

(***************************************************************************)
(* A query of the set fails after earlier queries returned hits.           *)
(***************************************************************************)
\* C31: when the embedding or the search of one query of the set raises, the
\* retrieval as a whole is given up: its result holds none of the hits the
\* earlier queries of the same call collected, and the generation that
\* follows is called with the empty content.
C31_FailedQueryDropsCollectedHits ==
    r_exc \in {"generate_embedding", "search"} =>
        /\ r_pc \in {"done", "mcq_done"}
        /\ content = <<>>
        /\ \A i \in 1..Len(all_hits) : ~Contains(content, <<all_hits[i]>>)
        /\ generation.called => generation.content = <<>>

\* the second query failed after the first one had returned hits
C31_Witness ==
    /\ r_exc = "search"
    /\ r_pc = "done"
    /\ Len(search_log) = 1
    /\ Len(all_hits) > 1
    /\ Len(queries) > 1

(***************************************************************************)
(* Topic extraction after the completed write.                             *)
(***************************************************************************)
\* C32: topic extraction runs only on a document whose status completed has
\* been written, and however it ends (no initial chunks, generation error,
\* answer without a list, refused topics update, topics stored) the status
\* stays completed and the message stays cleared.
C32_TopicsLeaveCompleted ==
    (pc = "topics" \/ topics_outcome # "none") =>
        /\ status = "completed"
        /\ message = None
        /\ pc \in {"topics", "done"}

\* every way generate_document_topics can end has been seen
C32_Witness ==
    /\ pc = "done"
    /\ topics_outcome = "write_failed"
    /\ status = "completed"
    /\ \E b \in DOMAIN task : Len(attempts[b]) > 1

(***************************************************************************)
(* Runs with refused status updates and with exceptions without text.      *)
(***************************************************************************)
TerminalStatus == {"completed", "failed"}

\* C33: every run of process_document eventually leaves the document in a
\* terminal status, completed or failed, also when a status update is refused.
C33_EventuallyTerminal == <>(status \in TerminalStatus)

ProgressTexts ==
    {MsgExtracting, MsgChunking} \cup {MsgGenerating(n) : n \in 0..WideChunks}

\* C39: in a terminal status the message is never a progress text: it is
\* cleared on completed, and on failed it is one of the two fixed failure
\* messages or the text of the causing error, also when that text is empty.
C39_TerminalMessage ==
    /\ status = "completed" => message = None
    /\ status = "failed" =>
          /\ message \notin ProgressTexts
          /\ failed_by = "extract" => message = MsgExtractFailed
          /\ failed_by = "chunk" => message = MsgNoChunks
          /\ (failed_by = "exception" /\ exc_origin = "process_batch") =>
                message = gather_exc

(***************************************************************************)
(* Sibling batches after the failed write.                                 *)
(***************************************************************************)
\* C34: once failed has been written because a batch raised, no sibling
\* batch of the document makes a further embed call or upserts vectors.
C34_NoWorkAfterFailed ==
    [][ (status = "failed" /\ pc = "done" /\ exc_origin = "process_batch") =>
            /\ embed_calls' = embed_calls
            /\ upserted' = upserted ]_vars

(***************************************************************************)
(* The points of a completed document.                                     *)
(***************************************************************************)
\* the points of the document stored with chunk_id i
PointsOfChunk(i) == {p \in points : p.document_id = DocumentId /\ p.chunk_id = i}

\* C35: when a document of N chunks is completed, the index holds exactly
\* one vector for each chunk index 0..N-1, without gap and without duplicate
\* chunk_id, also when batches were retried after a failed embed or upsert.
C35_OneVectorPerChunk ==
    status = "completed" =>
        /\ \A i \in 0..(Len(chunks) - 1) : Cardinality(PointsOfChunk(i)) = 1
        /\ \A p \in points : p.chunk_id \in 0..(Len(chunks) - 1)

(***************************************************************************)
(* Progress of the batch tasks.                                            *)
(***************************************************************************)
\* every batch task has left "async with semaphore" and every slot is free
BatchesFinished ==
    /\ DOMAIN task = 0..(total_batches(chunks) - 1)
    /\ \A b \in DOMAIN task : task[b].st \in {"done", "raised"}
    /\ waiters = <<>>
    /\ semaphore = SemaphoreSlots

\* a step that takes no slot and frees none
SlotKept == semaphore' = semaphore

C37_NoVectorAfterDelete ==
    \A k \in 1..Len(delete_log) :
        (k = Len(delete_log) /\ ~delete_log[k].raised) =>
            {p \in points : p.document_id = DocumentId} = {}

(***************************************************************************)
(* The history handed to the generation.                                   *)
(***************************************************************************)
\* get_answer has been called with chat_history
HistoryHanded ==
    \/ c_pc \in {"retrieve", "generate", "returned"}
    \/ c_pc = "http500" /\ gen_error # NoError

\* C38: the history handed to the generation is exactly the project's turns
\* persisted before the request's own user turn: the cut removes that user
\* turn and nothing else, also when the turns of a second request of the
\* project are inserted before, between and after the turns of this one.
C38_HistoryIsPriorTurns ==
    HistoryHanded =>
        \E i \in 1..Len(chat_messages) :
            /\ chat_messages[i] = UserTurn
            /\ chat_history = SubSeq(chat_messages, 1, i - 1)

\* the second request asked before this one and was answered while this one
\* was suspended in get_answer
C38_Witness ==
    /\ c_pc = "returned"
    /\ Len(chat_history) = Len(PriorExchange) + 1
    /\ chat_history[Len(chat_history)] = OtherUserTurn
    /\ chat_messages[Len(chat_history) + 2] = OtherAssistantTurn

====
